---- MODULE Spec2Model ----
(***************************************************************************)
(* A model of the self-healing fabric of invoice-telegram-bot:             *)
(*   - CircuitBreaker                 (src/circuit_breaker.py)             *)
(*   - retry / async_retry            (src/retry_mechanism.py)             *)
(*   - Orchestrator and Watchdog      (src/invoice_bot/orchestrator.py,    *)
(*                                     src/invoice_bot/watchdog.py)        *)
(*   - DeadLetterQueue                (src/dead_letter_queue.py)           *)
(* Each component has its own specification (SpecCB, SpecRetry, SpecOrch,  *)
(* SpecDLQ); the variables of the components a specification does not      *)
(* exercise stay at their values after construction.                       *)
(***************************************************************************)
EXTENDS Integers, Sequences, FiniteSets, TLC

VARIABLES
    \* ---- CircuitBreaker ------------------------------------------------
    config,                 \* CircuitBreakerConfig (thresholds, timeout)
    state,                  \* self._state
    consecutive_failures,   \* self._stats.consecutive_failures
    consecutive_successes,  \* self._stats.consecutive_successes
    half_open_calls,        \* self._half_open_calls
    opened_at,              \* self._opened_at (None or a time.time() value)
    now,                    \* the wall clock, time.time() / datetime.now()
    \* observations of the breaker's callers (not program state)
    lastOp,                 \* the breaker method called last
    lastRet,                \* what the last can_execute() returned
    hoAdmits,               \* can_execute() calls that returned True in the
                            \* current half-open window, the opening one included
    closedFailRun,          \* record_failure() calls in a row while CLOSED
    lastFrom,               \* the state the last method call found
    hoSuccesses,            \* record_success() calls in the latest half-open window
    openSince,              \* the time of the last transition into OPEN
    hooks,                  \* the hooks of the config that are set and raise
    cbRaised,               \* whether the last breaker method raised
    \* ---- retry / async_retry: one decorated function and its runs ------
    rcfg,                   \* RetryConfig, and which decorator wraps the function
    rpc,                    \* where the current run of wrapper() is
    attempt,                \* the loop variable of wrapper()
    ctxStats,               \* ctx.stats (attempts, successes, failures)
    lastErr,                \* ctx.errors[-1], "none" when ctx.errors is empty
    raisedErr,              \* the exception that left wrapper(), "none" if none
    \* observations of one run (not program state)
    opCalls,                \* invocations of the decorated function
    sleeps,                 \* backoff sleeps started
    cbFailCalls,            \* circuit_breaker.record_failure() calls made
    cbRejected,             \* a can_execute() of this run returned False
    \* ---- Orchestrator and Watchdog -------------------------------------
    active_tasks,           \* self.active_tasks: the task ids, in insertion order
    task_history,           \* self.task_history: the task ids archived
    task,                   \* the TrackedTask objects, by task id
    call,                   \* the calls of execute_with_timeout, by task id
    wd,                     \* the watchdog's _monitor_loop
    \* ---- DeadLetterQueue -----------------------------------------------
    items,                  \* self._items: the DLQItem objects, by item id
    index,                  \* the keys of self._items, in the dict's order
    nItems,                 \* how many items were enqueued (ids 1..nItems)
    handlers,               \* self._handlers: the operation types registered
    disk,                   \* <id>.json in storage_path: what was last written
    storage,                \* whether writes to storage_path succeed
    proc,                   \* _processor_loop: where it is, its ready_items,
                            \* the item its sweep processed last (0: none yet)
    man,                    \* a caller of retry_item: where it is, its item
    \* observations of the queue's callers and files (not program state)
    enq,                    \* how the last call of enqueue ended
    stored,                 \* the ids whose file once held a complete record
    \* observation of the operator of the queue (not program state)
    dropped,                \* the ids discard_item was seen to return True for
    \* ---- MultiLayerStateManager and its layers -------------------------
    layers,                 \* self._layers, the kinds of the layers added
    mem,                    \* MemoryPersistenceLayer._storage: version by key
    memOrder,               \* the keys of _access_times, oldest access first
    files,                  \* FilePersistenceLayer: the version in <key>.json
    sinceSync,              \* seconds since self._last_sync[key], None if unset
    held,                   \* the SessionState object the caller holds for a
                            \* session_id: its version, 0 if it holds none
    \* observations of the manager's callers (not program state)
    lastCall,               \* the last save_state / load_state and its result
    lastSave,               \* the last save_state: its sync_all and what the
                            \* save of each layer it wrote did
    fileErrors,             \* whether a FilePersistenceLayer.save has failed
    lastOk,                 \* by key, the version of the last save_state that
                            \* returned True
    fresh,                  \* by key: no save_state yet since the last restart
    maxWritten,             \* by key, the highest version a save_state that
                            \* returned True has written
    \* ---- FilePersistenceLayer: the files of one key --------------------
    fTarget,                \* <md5(key)>.json: what it holds
    fTmp,                   \* <md5(key)>.tmp: what it holds
    fsav,                   \* the coroutines inside save(key, state)
    fNext,                  \* the version the next save(key, state) writes
    \* observations of the layer's callers (not program state)
    fDone,                  \* the versions whose save returned True
    fRead,                  \* how the last save or load of the key ended
    \* ---- RetryContext.calculate_delay ----------------------------------
    bcfg,                   \* the RetryConfig of the context
    bcall,                  \* the last call of calculate_delay: its attempt,
                            \* the value random.uniform gave, what it returned
    \* ---- ErrorClassifier.classify --------------------------------------
    cerr,                   \* the error passed to classify, and the custom
                            \* classifier registered for its type, if any
    cres                    \* what the last call of classify returned or raised

cbVars == <<config, state, consecutive_failures, consecutive_successes,
            half_open_calls, opened_at, lastOp, lastRet, hoAdmits,
            closedFailRun, lastFrom, hoSuccesses, openSince, hooks, cbRaised>>

retryVars == <<rcfg, rpc, attempt, ctxStats, lastErr, raisedErr,
               opCalls, sleeps, cbFailCalls, cbRejected>>

orchVars == <<active_tasks, task_history, task, call, wd>>

dlqVars == <<items, index, nItems, handlers, disk, storage, proc, man,
             enq, stored>>

smVars == <<layers, mem, memOrder, files, sinceSync, held, lastCall, lastSave,
            fileErrors, lastOk, fresh, maxWritten>>

fileVars == <<fTarget, fTmp, fsav, fNext, fDone, fRead>>

backoffVars == <<bcfg, bcall>>

classVars == <<cerr, cres>>

\* The components modelled on their own, and the observations made only in
\* the specifications that need them.
obsVars == <<dropped>>

extVars == <<fileVars, backoffVars, classVars, obsVars>>

\* What the breaker and the retry wrappers never touch.
otherVars == <<orchVars, dlqVars, smVars, extVars>>

vars == <<cbVars, now, retryVars, otherVars>>

\* ------------------------------------------------------------------------
\* Bounds of the model
\* ------------------------------------------------------------------------
MaxTime == 5            \* the clock stops here
MaxCount == 3           \* the consecutive_* counters saturate here
MaxThreshold == 2       \* failure_threshold and success_threshold are 1..MaxThreshold
MaxRecovery == 2        \* recovery_timeout is 0..MaxRecovery clock units
MaxProbes == 2          \* half_open_max_calls is 1..MaxProbes
MaxRetries == 2         \* RetryConfig.max_retries is 0..MaxRetries
NCalls == 1             \* calls of execute_with_timeout
NItems == 2             \* items enqueued in the dead letter queue
MaxItemRetries == 2     \* DLQItem.max_retries is 0..MaxItemRetries
NSessions == 2          \* session ids used with the state manager
MaxVersion == 4         \* SessionState.version stays at or below this
MaxSize == 1            \* MemoryPersistenceLayer(max_size)
NSavers == 2            \* coroutines that can be inside FilePersistenceLayer.save
MaxSaves == 3           \* calls of FilePersistenceLayer.save for the key
MaxAttempt == 4         \* calculate_delay is called with attempt 0..MaxAttempt
JitterSteps == 2        \* random.uniform(-1, 1) gives k / JitterSteps

None == -1              \* Python's None for an optional time

\* counter + 1, saturating at MaxCount. The code reads the consecutive_*
\* counters only in ">= threshold" tests, and every threshold of the model
\* is at most MaxThreshold < MaxCount, so no test can tell the values above
\* MaxCount apart.
Bump(n) == IF n < MaxCount THEN n + 1 ELSE MaxCount

\* Python truthiness of an Optional[float]: None and 0.0 are falsy.
Truthy(t) == t # None /\ t # 0

\* ------------------------------------------------------------------------
\* CircuitBreaker
\* ------------------------------------------------------------------------
CircuitBreakerConfigs ==
    [failure_threshold : 1..MaxThreshold,
     recovery_timeout : 0..MaxRecovery,
     half_open_max_calls : 1..MaxProbes,
     success_threshold : 1..MaxThreshold]

\* CircuitBreakerConfig() as the dataclass defaults give it.
DefaultBreakerConfig ==
    [failure_threshold |-> 5,
     recovery_timeout |-> 30,
     half_open_max_calls |-> 3,
     success_threshold |-> 2]

\* CircuitBreaker.__init__
\* The hooks of CircuitBreakerConfig (all None by default).
Hooks == {"on_open", "on_close", "on_state_change"}

\* The state of the hooks before the first call: those in `raising` are set
\* to callables that raise, the others are None or return.
HookInit(raising) ==
    /\ hooks \in raising
    /\ cbRaised = FALSE

\* The hooks called inside a try / except: on_state_change, by
\* _notify_state_change. on_open and on_close are called directly.
CaughtHooks == {"on_state_change"}

\* Whether a method that calls the hooks in `called` raises.
HookRaises(called) == (called \cap hooks) \ CaughtHooks # {}

CBInit(cfgs) ==
    /\ config \in cfgs
    /\ state = "CLOSED"
    /\ consecutive_failures = 0
    /\ consecutive_successes = 0
    /\ half_open_calls = 0
    /\ opened_at = None
    /\ lastOp = "none"
    /\ lastRet = FALSE
    /\ hoAdmits = 0
    /\ closedFailRun = 0
    /\ lastFrom = "CLOSED"
    /\ hoSuccesses = 0
    /\ openSince = None

\* A breaker that waits one clock unit too long before probing.
RecoveryElapsed_Late ==
    Truthy(opened_at) /\ (now - opened_at) > config.recovery_timeout

\* The recovery test of can_execute in OPEN.
RecoveryElapsed ==
    Truthy(opened_at) /\ (now - opened_at) >= config.recovery_timeout

\* The admission test of can_execute in HALF_OPEN.
HalfOpenAdmits == half_open_calls < config.half_open_max_calls

\* CircuitBreaker.can_execute: the changes to the breaker and the value
\* returned (lastRet').
CanExecuteBody ==
    /\ lastOp' = "can_execute"
    /\ lastFrom' = state
    /\ hoSuccesses' = IF state = "OPEN" /\ RecoveryElapsed THEN 0 ELSE hoSuccesses
    /\ CASE state = "CLOSED" ->
              /\ lastRet' = TRUE
              /\ UNCHANGED <<state, half_open_calls, consecutive_successes, hoAdmits>>
         [] state = "OPEN" ->
              IF RecoveryElapsed
              THEN /\ state' = "HALF_OPEN"
                   /\ half_open_calls' = 0
                   /\ consecutive_successes' = 0
                   /\ hoAdmits' = 1
                   /\ lastRet' = TRUE
              ELSE /\ lastRet' = FALSE
                   /\ UNCHANGED <<state, half_open_calls, consecutive_successes, hoAdmits>>
         [] state = "HALF_OPEN" ->
              IF HalfOpenAdmits
              THEN /\ half_open_calls' = half_open_calls + 1
                   /\ hoAdmits' = hoAdmits + 1
                   /\ lastRet' = TRUE
                   /\ UNCHANGED <<state, consecutive_successes>>
              ELSE /\ lastRet' = FALSE
                   /\ UNCHANGED <<state, half_open_calls, consecutive_successes, hoAdmits>>
    /\ cbRaised' = HookRaises(IF state = "OPEN" /\ RecoveryElapsed
                               THEN {"on_state_change"} ELSE {})
    /\ UNCHANGED <<config, consecutive_failures, opened_at, closedFailRun,
                   openSince, hooks>>

\* The threshold test of record_failure in CLOSED, on the incremented counter.
ThresholdReached(n) == n >= config.failure_threshold

\* The closing test of record_success in HALF_OPEN, on the incremented counter.
SuccessesReached(n) == n >= config.success_threshold

\* CircuitBreaker.record_success
RecordSuccessBody ==
    /\ lastOp' = "record_success"
    /\ lastFrom' = state
    /\ hoSuccesses' = IF state = "HALF_OPEN" THEN Bump(hoSuccesses) ELSE hoSuccesses
    /\ consecutive_successes' = Bump(consecutive_successes)
    /\ consecutive_failures' = 0
    /\ closedFailRun' = 0
    /\ IF state = "HALF_OPEN" /\ SuccessesReached(consecutive_successes + 1)
       THEN /\ state' = "CLOSED"
            /\ opened_at' = None
            /\ hoAdmits' = 0
       ELSE UNCHANGED <<state, opened_at, hoAdmits>>
    /\ cbRaised' = HookRaises(IF state' # state
                               THEN {"on_state_change", "on_close"} ELSE {})
    /\ UNCHANGED <<config, half_open_calls, lastRet, openSince, hooks>>

\* A breaker that forgives a half-open failure once a success was recorded
\* in the window.
HalfOpenFailure_Forgiving ==
    IF consecutive_successes = 0
    THEN /\ state' = "OPEN"
         /\ opened_at' = now
         /\ openSince' = now
         /\ hoAdmits' = 0
    ELSE UNCHANGED <<state, opened_at, openSince, hoAdmits>>

\* What record_failure does to the state machine in HALF_OPEN.
HalfOpenFailure ==
    /\ state' = "OPEN"
    /\ opened_at' = now
    /\ openSince' = now
    /\ hoAdmits' = 0

\* CircuitBreaker.record_failure
RecordFailureBody ==
    /\ lastOp' = "record_failure"
    /\ lastFrom' = state
    /\ UNCHANGED hoSuccesses
    /\ consecutive_failures' = Bump(consecutive_failures)
    /\ consecutive_successes' = 0
    /\ closedFailRun' = IF state = "CLOSED" THEN closedFailRun + 1 ELSE 0
    /\ CASE state = "CLOSED" ->
              IF ThresholdReached(consecutive_failures + 1)
              THEN /\ state' = "OPEN"
                   /\ opened_at' = now
                   /\ openSince' = now
                   /\ UNCHANGED hoAdmits
              ELSE UNCHANGED <<state, opened_at, openSince, hoAdmits>>
         [] state = "HALF_OPEN" -> HalfOpenFailure
         [] state = "OPEN" -> UNCHANGED <<state, opened_at, openSince, hoAdmits>>
    /\ cbRaised' = HookRaises(IF state # "OPEN" /\ state' = "OPEN"
                               THEN {"on_state_change", "on_open"} ELSE {})
    /\ UNCHANGED <<config, half_open_calls, lastRet, hooks>>

\* CircuitBreaker.force_open
ForceOpenBody ==
    /\ lastOp' = "force_open"
    /\ lastFrom' = state
    /\ UNCHANGED hoSuccesses
    /\ IF state # "OPEN"
       THEN /\ state' = "OPEN"
            /\ opened_at' = now
            /\ openSince' = now
            /\ hoAdmits' = 0
       ELSE UNCHANGED <<state, opened_at, openSince, hoAdmits>>
    /\ closedFailRun' = 0
    /\ cbRaised' = HookRaises(IF state # "OPEN" THEN {"on_open"} ELSE {})
    /\ UNCHANGED <<config, consecutive_failures, consecutive_successes,
                   half_open_calls, lastRet, hooks>>

\* CircuitBreaker.force_close
ForceCloseBody ==
    /\ lastOp' = "force_close"
    /\ lastFrom' = state
    /\ UNCHANGED hoSuccesses
    /\ IF state # "CLOSED"
       THEN /\ state' = "CLOSED"
            /\ opened_at' = None
            /\ consecutive_failures' = 0
            /\ hoAdmits' = 0
            /\ closedFailRun' = 0
       ELSE UNCHANGED <<state, opened_at, consecutive_failures, hoAdmits, closedFailRun>>
    /\ cbRaised' = HookRaises(IF state # "CLOSED" THEN {"on_close"} ELSE {})
    /\ UNCHANGED <<config, consecutive_successes, half_open_calls, lastRet,
                   openSince, hooks>>

\* One unit of wall-clock time passes.
Tick ==
    /\ now < MaxTime
    /\ now' = now + 1
    /\ UNCHANGED <<cbVars, retryVars, otherVars>>

\* The breaker's methods as called by any caller.
CanExecute == CanExecuteBody /\ UNCHANGED <<now, retryVars, otherVars>>
RecordSuccess == RecordSuccessBody /\ UNCHANGED <<now, retryVars, otherVars>>
RecordFailure == RecordFailureBody /\ UNCHANGED <<now, retryVars, otherVars>>
ForceOpen == ForceOpenBody /\ UNCHANGED <<now, retryVars, otherVars>>
ForceClose == ForceCloseBody /\ UNCHANGED <<now, retryVars, otherVars>>

\* ------------------------------------------------------------------------
\* retry / async_retry
\* ------------------------------------------------------------------------
\* The exceptions a run can meet: two that the decorated function raises,
\* asyncio.TimeoutError (raised by asyncio.wait_for when config.timeout is
\* set, or by the function itself) and CircuitBreakerOpenError. A fifth,
\* "CallbackError", is what a config.on_success callback raises when it is
\* set and fails (on_success "raises"); "none" is no callback, or one that
\* returns. config.on_retry and config.on_failure are left at their default,
\* None.
OpErrors == {"ValueError", "ConnectionError", "TimeoutError"}

RetryConfigs ==
    [max_retries : 0..MaxRetries,
     non_retryable_exceptions : {{}, {"ValueError"}},
     retryable_exceptions : {{}, {"ConnectionError"}},
     circuit_breaker : BOOLEAN,
     on_success : {"none", "raises"},
     decorator : {"retry", "async_retry"}]

\* RetryConfig() as the dataclass defaults give it, under retry.
DefaultRetryConfig ==
    [max_retries |-> 3,
     non_retryable_exceptions |-> {},
     retryable_exceptions |-> {},
     circuit_breaker |-> FALSE,
     on_success |-> "none",
     decorator |-> "retry"]

\* The state before wrapper() is first called.
RetryInit(cfgs) ==
    /\ rcfg \in cfgs
    /\ rpc = "idle"
    /\ attempt = 0
    /\ ctxStats = [attempts |-> 0, successes |-> 0, failures |-> 0]
    /\ lastErr = "none"
    /\ raisedErr = "none"
    /\ opCalls = 0
    /\ sleeps = 0
    /\ cbFailCalls = 0
    /\ cbRejected = FALSE

\* RetryContext.should_retry
should_retry(error, n) ==
    IF n >= rcfg.max_retries THEN FALSE
    ELSE IF rcfg.non_retryable_exceptions # {}
            /\ error \in rcfg.non_retryable_exceptions THEN FALSE
    ELSE IF rcfg.retryable_exceptions # {}
         THEN error \in rcfg.retryable_exceptions
    ELSE TRUE

\* The top of loop iteration n of wrapper(), entered with ctx.stats = stats:
\* ctx.record_attempt(), the breaker's permission check, and the invocation
\* of the function.
AttemptBody(n, stats) ==
    /\ attempt' = n
    /\ ctxStats' = [stats EXCEPT !.attempts = stats.attempts + 1]
    /\ IF rcfg.circuit_breaker
       THEN /\ CanExecuteBody
            /\ rpc' = IF lastRet' THEN "running" ELSE "rejected"
            /\ opCalls' = IF lastRet' THEN (IF n = 0 THEN 1 ELSE opCalls + 1)
                                      ELSE (IF n = 0 THEN 0 ELSE opCalls)
            /\ cbRejected' = IF n = 0 THEN ~lastRet' ELSE (cbRejected \/ ~lastRet')
       ELSE /\ rpc' = "running"
            /\ opCalls' = IF n = 0 THEN 1 ELSE opCalls + 1
            /\ cbRejected' = IF n = 0 THEN FALSE ELSE cbRejected
            /\ UNCHANGED cbVars
    /\ UNCHANGED <<rcfg, now, otherVars>>

\* wrapper() is called: a new run starts with iteration 0.
RetryCall ==
    /\ rpc \in {"idle", "returned", "raised"}
    /\ AttemptBody(0, [attempts |-> 0, successes |-> 0, failures |-> 0])
    /\ lastErr' = "none"
    /\ raisedErr' = "none"
    /\ sleeps' = 0
    /\ cbFailCalls' = 0

\* The backoff sleep ends and the loop goes to its next iteration.
RetryWake ==
    /\ rpc = "sleeping"
    /\ AttemptBody(attempt + 1, ctxStats)
    /\ UNCHANGED <<lastErr, raisedErr, sleeps, cbFailCalls>>

\* A wrapper that raises CircuitBreakerOpenError outside the try block, so
\* that no except clause reports the refusal to the breaker.
ReportsToBreaker_NotRefusals(error) ==
    /\ rcfg.circuit_breaker
    /\ ~(rcfg.decorator = "async_retry" /\ error = "TimeoutError")
    /\ error # "CircuitBreakerOpenError"

\* Whether this except clause reports the failure to the breaker: the
\* "except asyncio.TimeoutError" clause of async_retry does not.
ReportsToBreaker(error) ==
    /\ rcfg.circuit_breaker
    /\ ~(rcfg.decorator = "async_retry" /\ error = "TimeoutError")

\* The except clauses of wrapper() for an exception raised in iteration
\* `attempt` with ctx.stats = stats: ctx.record_failure(e),
\* circuit_breaker.record_failure(), then either re-raise or start the
\* backoff sleep.
HandleError(error, stats) ==
    /\ ctxStats' = [stats EXCEPT !.failures = stats.failures + 1]
    /\ lastErr' = error
    /\ IF ReportsToBreaker(error)
       THEN RecordFailureBody /\ cbFailCalls' = cbFailCalls + 1
       ELSE UNCHANGED <<cbVars, cbFailCalls>>
    /\ IF should_retry(error, attempt)
       THEN /\ rpc' = "sleeping"
            /\ sleeps' = sleeps + 1
            /\ UNCHANGED raisedErr
       ELSE /\ rpc' = "raised"
            /\ raisedErr' = error
            /\ UNCHANGED sleeps
    /\ UNCHANGED <<rcfg, attempt, opCalls, cbRejected, now, otherVars>>

\* The function returns: ctx.record_success(), config.on_success(ctx.stats),
\* circuit_breaker.record_success(), return result. All of it is inside the
\* try block, so an exception of the callback goes to "except Exception"
\* like an exception of the function.
OpReturns ==
    /\ rpc = "running"
    /\ LET stats == [ctxStats EXCEPT !.successes = ctxStats.successes + 1] IN
       IF rcfg.on_success = "raises"
       THEN HandleError("CallbackError", stats)
       ELSE /\ rpc' = "returned"
            /\ ctxStats' = stats
            /\ IF rcfg.circuit_breaker THEN RecordSuccessBody
                                       ELSE UNCHANGED cbVars
            /\ UNCHANGED <<rcfg, attempt, lastErr, raisedErr, opCalls, sleeps,
                           cbFailCalls, cbRejected, now, otherVars>>

\* The function (or asyncio.wait_for around it) raises.
OpRaises ==
    /\ rpc = "running"
    /\ \E error \in OpErrors : HandleError(error, ctxStats)

\* The breaker refused: CircuitBreakerOpenError is raised inside the try
\* block and caught by "except Exception".
RetryRejected ==
    /\ rpc = "rejected"
    /\ HandleError("CircuitBreakerOpenError", ctxStats)

\* Other users of the same breaker act between the steps of the run. Under
\* async_retry nothing can run between a refusal and its except clause
\* (there is no await in between); under retry another thread can.
OthersMayRun == rcfg.decorator = "retry" \/ rpc # "rejected"

OtherFailure ==
    OthersMayRun /\ RecordFailureBody /\ UNCHANGED <<now, retryVars, otherVars>>
OtherSuccess ==
    OthersMayRun /\ RecordSuccessBody /\ UNCHANGED <<now, retryVars, otherVars>>


\* ------------------------------------------------------------------------
\* src/dead_letter_queue.py: DLQItem and DeadLetterQueue
\* ------------------------------------------------------------------------
\* Time is kept per item as the seconds left until next_retry_at (wait), None
\* when next_retry_at is None: the code compares datetime.now() only with
\* next_retry_at.
ItemIds == 1..NItems
RetryInterval == 30
BaseDelay == 60
MaxDelay == 3600

\* The operation types of the model and what their handlers can do: the
\* handler of "broken" fails on every call (raises or returns a falsy value),
\* the handler of "flaky" can also succeed.
OpTypes == {"broken", "flaky"}
HandlerOutcomes(operation_type) ==
    IF operation_type = "broken" THEN {"raises", "falsy"}
    ELSE {"truthy", "raises", "falsy"}

Priorities == {1, 5}

NoItem ==
    [status |-> "none", operation_type |-> "none", retry_count |-> 0,
     max_retries |-> 0, wait |-> None, priority |-> 0]

\* The content of <id>.json: no file, a file cut short (opened for writing
\* and not written to the end), or the JSON object of to_dict.
JsonNull == -2
NoFile ==
    [status |-> "none", operation_type |-> "none", retry_count |-> 0,
     max_retries |-> 0, next_retry_at |-> JsonNull, priority |-> 0]
PartialFile == [NoFile EXCEPT !.status = "partial"]
Loadable(file) == file.status \notin {"none", "partial"}

\* DLQItem.to_dict: status by name, next_retry_at as a time or null.
to_dict(item) ==
    [status |-> item.status, operation_type |-> item.operation_type,
     retry_count |-> item.retry_count, max_retries |-> item.max_retries,
     next_retry_at |-> IF item.wait # None THEN item.wait ELSE JsonNull,
     priority |-> item.priority]

\* DLQItem.from_dict
from_dict(data) ==
    [status |-> data.status, operation_type |-> data.operation_type,
     retry_count |-> data.retry_count, max_retries |-> data.max_retries,
     wait |-> IF data.next_retry_at # JsonNull THEN data.next_retry_at ELSE None,
     priority |-> data.priority]

\* A _save_item without the try / except: a failing write raises.
SaveRaises_Unguarded == storage = "failing"

\* Whether an exception of the write leaves _save_item: the open and the
\* write are inside try / except Exception.
SaveRaises == FALSE

\* The storage directory of a run: its writes succeed, or every write raises
\* (a full or read-only disk) and _save_item logs and drops the exception.
StorageKinds == {"working", "failing"}

\* DeadLetterQueue.__init__ on a storage directory of one of the kinds;
\* nobody is in retry_item.
DLQInit(kinds) ==
    /\ items = [i \in ItemIds |-> NoItem]
    /\ index = <<>>
    /\ nItems = 0
    /\ handlers = {}
    /\ disk = [i \in ItemIds |-> NoFile]
    /\ storage \in kinds
    /\ proc = [pc |-> "sleeping", ready |-> <<>>, last |-> 0]
    /\ man = [pc |-> "idle", item |-> 0]
    /\ enq = [id |-> 0, raised |-> FALSE]
    /\ stored = {}

\* DeadLetterQueue._save_item of item i as it is in its. On failing storage
\* the open raises and the file is as it was.
Save(its, i) ==
    /\ disk' = IF storage = "working" THEN [disk EXCEPT ![i] = to_dict(its[i])]
                                      ELSE disk
    /\ stored' = IF storage = "working" THEN stored \cup {i} ELSE stored
    /\ UNCHANGED storage

\* DLQItem.is_ready_for_retry
is_ready_for_retry(i) ==
    /\ items[i].status \in {"PENDING", "RETRYING"}
    /\ items[i].retry_count < items[i].max_retries
    /\ ~(items[i].wait # None /\ items[i].wait > 0)

RECURSIVE Pow2(_)
Pow2(n) == IF n = 0 THEN 1 ELSE 2 * Pow2(n - 1)

\* delay = min(60 * (2 ** item.retry_count), 3600)
RetryDelay(retry_count) ==
    IF BaseDelay * Pow2(retry_count) < MaxDelay
    THEN BaseDelay * Pow2(retry_count) ELSE MaxDelay

\* DLQItem.mark_processing, mark_retry, mark_success, mark_failed,
\* mark_discarded
mark_processing(item) == [item EXCEPT !.status = "PROCESSING"]
mark_retry(item, delay_seconds) ==
    [item EXCEPT !.retry_count = @ + 1, !.status = "RETRYING",
                 !.wait = delay_seconds]
mark_success(item) == [item EXCEPT !.status = "SUCCESS"]
mark_failed(item) == [item EXCEPT !.status = "FAILED"]
mark_discarded(item) == [item EXCEPT !.status = "DISCARDED"]

\* A budget test that still allows a retry when the budget is used up.
BudgetLeft_Lenient(item) == item.retry_count <= item.max_retries

\* The budget test of _process_item's except clause.
BudgetLeft(item) == item.retry_count < item.max_retries

\* _process_item's except clause: schedule a retry or fail for good.
AfterFailure(item) ==
    IF BudgetLeft(item) THEN mark_retry(item, RetryDelay(item.retry_count))
                        ELSE mark_failed(item)

RECURSIVE InsertByPriority(_, _)
\* Where list.sort(key=priority) puts id i among the sorted ids q that came
\* before it: after every id whose priority is not greater (the sort is
\* stable).
InsertByPriority(q, i) ==
    IF q = <<>> THEN <<i>>
    ELSE IF items[Head(q)].priority <= items[i].priority
         THEN <<Head(q)>> \o InsertByPriority(Tail(q), i)
         ELSE <<i>> \o q

RECURSIVE SortByPriority(_)
SortByPriority(q) ==
    IF q = <<>> THEN <<>>
    ELSE InsertByPriority(SortByPriority(SubSeq(q, 1, Len(q) - 1)), q[Len(q)])

\* ready_items of _process_ready_items: the ready items of self._items in
\* insertion order, sorted by priority.
ReadyItems == SortByPriority(SelectSeq(index, is_ready_for_retry))

\* item_id is a key of self._items
InIndex(i) == \E k \in 1..Len(index) : index[k] = i

\* DeadLetterQueue.enqueue: the item is stored under a new id and saved.
EnqueueBody ==
    /\ nItems < NItems
    /\ \E ot \in OpTypes, mr \in 0..MaxItemRetries, pr \in Priorities :
          LET i == nItems + 1
              its == [items EXCEPT ![i] =
                         [status |-> "PENDING", operation_type |-> ot,
                          retry_count |-> 0, max_retries |-> mr,
                          wait |-> None, priority |-> pr]]
          IN /\ items' = its
             /\ index' = Append(index, i)
             /\ Save(its, i)
             /\ enq' = IF SaveRaises THEN [id |-> 0, raised |-> TRUE]
                                     ELSE [id |-> i, raised |-> FALSE]
    /\ nItems' = nItems + 1
    /\ UNCHANGED <<handlers, proc, man>>

\* DeadLetterQueue.register_handler
RegisterHandlerBody ==
    /\ \E ot \in OpTypes \ handlers : handlers' = handlers \cup {ot}
    /\ UNCHANGED <<items, index, nItems, disk, storage, proc, man, enq, stored>>

\* handler = self._handlers.get(item.operation_type)
HasHandler(i) == items[i].operation_type \in handlers

\* A handler call for item i is in flight: _process_item, called by the
\* sweep or by retry_item, is at "await handler(item.payload)".
HandlerRunning(i) ==
    \/ proc.pc = "handler" /\ Head(proc.ready) = i
    \/ man.pc = "handler" /\ man.item = i

\* A _process_item that waits on a lock of the item while a handler call
\* for it is in flight.
BeginProcessing_Exclusive(i) ==
    /\ ~HandlerRunning(i)
    /\ LET its == [items EXCEPT ![i] = IF HasHandler(i) THEN mark_processing(@)
                                                        ELSE mark_discarded(@)]
       IN /\ items' = its
          /\ Save(its, i)

\* _process_item up to the call of the handler: without a handler the item
\* is discarded, else it is marked as being processed; either way it is saved.
BeginProcessing(i) ==
    LET its == [items EXCEPT ![i] = IF HasHandler(i) THEN mark_processing(@)
                                                     ELSE mark_discarded(@)]
    IN /\ items' = its
       /\ Save(its, i)

\* _process_item from the handler's return or exception to the final save.
FinishProcessing(i) ==
    \E o \in HandlerOutcomes(items[i].operation_type) :
        LET its == [items EXCEPT ![i] = IF o = "truthy" THEN mark_success(@)
                                                        ELSE AfterFailure(@)]
        IN /\ items' = its
           /\ Save(its, i)

\* The loop of _process_ready_items after the item at the head of `ready`.
AfterHead(ready) ==
    IF Tail(ready) = <<>>
    THEN [pc |-> "sleeping", ready |-> <<>>, last |-> 0]
    ELSE [pc |-> "next", ready |-> Tail(ready), last |-> Head(ready)]

\* The same for the sweep's current list.
AfterItem == AfterHead(proc.ready)

\* _processor_loop wakes up, _process_ready_items builds ready_items and
\* calls _process_item on the first of them: nothing is awaited between the
\* two, so no other coroutine runs in between.
SweepStartBody ==
    /\ proc.pc = "sleeping"
    /\ IF ReadyItems = <<>>
       THEN /\ proc' = [pc |-> "sleeping", ready |-> <<>>, last |-> 0]
            /\ UNCHANGED <<items, disk, storage, stored>>
       ELSE /\ BeginProcessing(Head(ReadyItems))
            /\ proc' = IF HasHandler(Head(ReadyItems))
                       THEN [pc |-> "handler", ready |-> ReadyItems, last |-> 0]
                       ELSE AfterHead(ReadyItems)
    /\ UNCHANGED <<index, nItems, handlers, man, enq>>

\* The sweep calls _process_item on the next item of its list, after the
\* last save for the item before it.
SweepBeginBody ==
    /\ proc.pc = "next"
    /\ BeginProcessing(Head(proc.ready))
    /\ proc' = IF HasHandler(Head(proc.ready)) THEN [proc EXCEPT !.pc = "handler"]
                                               ELSE AfterItem
    /\ UNCHANGED <<index, nItems, handlers, man, enq>>

\* The handler called by the sweep returns or raises.
SweepHandlerDoneBody ==
    /\ proc.pc = "handler"
    /\ FinishProcessing(Head(proc.ready))
    /\ proc' = AfterItem
    /\ UNCHANGED <<index, nItems, handlers, man, enq>>

\* DeadLetterQueue.retry_item up to its save.
RetryItemBody ==
    /\ man.pc = "idle"
    /\ \E i \in ItemIds :
          /\ InIndex(i)
          /\ LET its == [items EXCEPT ![i].retry_count = 0,
                                      ![i].status = "PENDING", ![i].wait = None]
             IN /\ items' = its
                /\ Save(its, i)
                /\ man' = [pc |-> "next", item |-> i]
    /\ UNCHANGED <<index, nItems, handlers, proc, enq>>

\* retry_item calls _process_item.
ManualBeginBody ==
    /\ man.pc = "next"
    /\ BeginProcessing(man.item)
    /\ man' = IF HasHandler(man.item) THEN [man EXCEPT !.pc = "handler"]
                                      ELSE [pc |-> "idle", item |-> 0]
    /\ UNCHANGED <<index, nItems, handlers, proc, enq>>

\* The handler called by retry_item returns or raises.
ManualHandlerDoneBody ==
    /\ man.pc = "handler"
    /\ FinishProcessing(man.item)
    /\ man' = [pc |-> "idle", item |-> 0]
    /\ UNCHANGED <<index, nItems, handlers, proc, enq>>

\* DeadLetterQueue.discard_item(i, reason), returning True
discard_item(i) ==
    /\ InIndex(i)
    /\ LET its == [items EXCEPT ![i] = mark_discarded(@)]
       IN /\ items' = its
          /\ Save(its, i)
    /\ UNCHANGED <<index, nItems, handlers, proc, man, enq>>

\* discard_item called on some item.
DiscardItemBody == \E i \in ItemIds : discard_item(i)

\* The items whose next_retry_at is still to come and can still be read:
\* is_ready_for_retry looks at it only in PENDING and RETRYING.
Waiting(i) ==
    /\ items[i].status \in {"PENDING", "RETRYING"}
    /\ items[i].wait # None
    /\ items[i].wait > 0

\* The same for the next_retry_at written in <id>.json.
FileWaiting(i) ==
    /\ disk[i].status \in {"PENDING", "RETRYING"}
    /\ disk[i].next_retry_at # JsonNull
    /\ disk[i].next_retry_at > 0

\* What is left of a wait after RetryInterval seconds.
Later(wait) == IF wait > RetryInterval THEN wait - RetryInterval ELSE 0

\* RetryInterval seconds pass: every next_retry_at, in memory and on disk,
\* is that much nearer.
DLQTick ==
    /\ \E i \in ItemIds : Waiting(i) \/ FileWaiting(i)
    /\ items' = [i \in ItemIds |->
                   IF Waiting(i) THEN [items[i] EXCEPT !.wait = Later(@)]
                                 ELSE items[i]]
    /\ disk' = [i \in ItemIds |->
                  IF FileWaiting(i)
                  THEN [disk[i] EXCEPT !.next_retry_at = Later(@)]
                  ELSE disk[i]]
    /\ UNCHANGED <<index, nItems, handlers, storage, proc, man, enq, stored>>

RECURSIVE Orders(_)
\* The orders in which a set of files can be listed.
Orders(S) ==
    IF S = {} THEN {<<>>}
    ELSE UNION {{<<i>> \o q : q \in Orders(S \ {i})} : i \in S}

\* A new process constructs the queue on the files dk and awaits
\* initialize(): _load_items takes the files in the order of glob("*.json")
\* and skips those that do not parse. Handlers are registered anew.
LoadItems(dk) ==
    /\ \E q \in Orders({i \in ItemIds : Loadable(dk[i])}) : index' = q
    /\ items' = [i \in ItemIds |-> IF Loadable(dk[i]) THEN from_dict(dk[i])
                                                      ELSE NoItem]
    /\ handlers' = {}
    /\ proc' = [pc |-> "sleeping", ready |-> <<>>, last |-> 0]
    /\ man' = [pc |-> "idle", item |-> 0]
    /\ enq' = [id |-> 0, raised |-> FALSE]

\* The process dies between two steps and is started again.
RestartBody ==
    /\ nItems > 0
    /\ LoadItems(disk)
    /\ UNCHANGED <<nItems, disk, storage, stored>>

\* The item the sweep is in _process_item for.
InSweep(i) == proc.pc \in {"next", "handler"} /\ Head(proc.ready) = i

\* The process dies inside _save_item, between the open for writing, which
\* truncates <id>.json, and the end of the write, and is started again. The
\* save is that of the sweep's current item, or that of an enqueue.
CrashInSaveBody ==
    /\ storage = "working"
    /\ \E i \in ItemIds :
          /\ InSweep(i) \/ (i = nItems + 1)
          /\ nItems' = IF i = nItems + 1 THEN i ELSE nItems
          /\ disk' = [disk EXCEPT ![i] = PartialFile]
          /\ LoadItems([disk EXCEPT ![i] = PartialFile])
    /\ UNCHANGED <<storage, stored>>

\* What the dead letter queue never touches.
notDlqVars == <<cbVars, now, retryVars, orchVars, smVars, extVars>>

\* discard_item called by an operator whose calls are recorded.
DiscardSeen ==
    /\ \E i \in ItemIds : discard_item(i) /\ dropped' = dropped \cup {i}
    /\ UNCHANGED <<cbVars, now, retryVars, orchVars, smVars, fileVars,
                   backoffVars, classVars>>


Enqueue == EnqueueBody /\ UNCHANGED notDlqVars
RegisterHandler == RegisterHandlerBody /\ UNCHANGED notDlqVars
SweepStart == SweepStartBody /\ UNCHANGED notDlqVars
SweepBegin == SweepBeginBody /\ UNCHANGED notDlqVars
SweepHandlerDone == SweepHandlerDoneBody /\ UNCHANGED notDlqVars
RetryItem == RetryItemBody /\ UNCHANGED notDlqVars
ManualBegin == ManualBeginBody /\ UNCHANGED notDlqVars
ManualHandlerDone == ManualHandlerDoneBody /\ UNCHANGED notDlqVars
DiscardItem == DiscardItemBody /\ UNCHANGED notDlqVars
DLQClock == DLQTick /\ UNCHANGED notDlqVars
Restart == RestartBody /\ UNCHANGED notDlqVars
CrashInSave == CrashInSaveBody /\ UNCHANGED notDlqVars

\* ------------------------------------------------------------------------
\* src/state_persistence.py: MultiLayerStateManager and its layers
\* ------------------------------------------------------------------------
\* A SessionState is known by its session_id and its version; 0 stands for
\* "no record" (None). Time is kept per key as the seconds since
\* _last_sync[key], saturating at _sync_interval.
Sessions == 1..NSessions
SyncInterval == 60
SyncTick == SyncInterval \div 2
Raised == -3

\* The layers a manager is built from: create_state_manager's memory and
\* file layers, and a StatePersistenceLayer that does not implement save and
\* load (the base class raises NotImplementedError in both).
DefaultLayers == <<"memory", "file">>
LayerConfigs == {DefaultLayers, <<"memory", "abstract", "file">>}

\* The managers add_layer can also build: without a memory layer
\* (create_state_manager(use_memory=False)), or with another layer first.
AllLayerConfigs ==
    LayerConfigs \cup {<<"file">>, <<"file", "memory">>, <<"abstract", "file">>}

\* How FilePersistenceLayer.save can end: the file is replaced, or the write
\* raises and save returns False.
FileOutcomes == {"written", "fails"}

NoCall2 == [op |-> "none", key |-> 0, version |-> 0, ok |-> FALSE]
NoSave == [sync_all |-> FALSE, primary |-> "none", slower |-> <<>>, raised |-> FALSE]

\* MultiLayerStateManager.__init__ and add_layer for one of the
\* configurations; the caller holds no SessionState yet.
SMInit(cfgs) ==
    /\ layers \in cfgs
    /\ mem = [k \in Sessions |-> 0]
    /\ memOrder = <<>>
    /\ files = [k \in Sessions |-> 0]
    /\ sinceSync = [k \in Sessions |-> None]
    /\ held = [k \in Sessions |-> 0]
    /\ lastCall = NoCall2
    /\ lastSave = NoSave
    /\ fileErrors = FALSE
    /\ lastOk = [k \in Sessions |-> 0]
    /\ fresh = [k \in Sessions |-> TRUE]
    /\ maxWritten = [k \in Sessions |-> 0]

\* self._access_times[key] = datetime.now()
Touch(q, k) == Append(SelectSeq(q, LAMBDA x : x # k), k)

\* MemoryPersistenceLayer.save: at capacity the key accessed longest ago is
\* evicted to make room for a new key.
MemSave(k, v) ==
    LET evict == Len(memOrder) >= MaxSize /\ mem[k] = 0
    IN /\ mem' = IF evict THEN [mem EXCEPT ![Head(memOrder)] = 0, ![k] = v]
                          ELSE [mem EXCEPT ![k] = v]
       /\ memOrder' = Touch(IF evict THEN Tail(memOrder) ELSE memOrder, k)

\* MemoryPersistenceLayer.save returns True.
MemSaveResult == TRUE

\* A _should_sync that lets a key through after half the interval.
should_sync_Eager(k) == sinceSync[k] = None \/ sinceSync[k] >= SyncTick

\* MultiLayerStateManager._should_sync
should_sync(k) == sinceSync[k] = None \/ sinceSync[k] >= SyncInterval

\* SessionState.update_timestamp
update_timestamp(version) == version + 1

\* Whether this call of save_state calls the save of the layer of a kind:
\* _write_layers[0] always, _write_layers[1:] when it syncs.
Wrote(kind, syncing) ==
    \/ layers[1] = kind
    \/ syncing /\ \E i \in 2..Len(layers) : layers[i] = kind

\* What layer.save does, o being how the file write ends: it returns True
\* ("ok") or False ("false"), or it raises.
SaveOutcome(kind, o) ==
    CASE kind = "memory" -> IF MemSaveResult THEN "ok" ELSE "false"
      [] kind = "file" -> IF o = "written" THEN "ok" ELSE "false"
      [] OTHER -> "raises"

\* A save_state without try / except around layer.save.
SwallowsSaveError_Not == FALSE

\* Every layer.save of save_state is inside try / except Exception.
SwallowsSaveError == TRUE

\* MultiLayerStateManager.save_state(state, sync_all) for the object the
\* caller holds for key k.
SaveStateBody(k, sync_all) ==
    /\ held[k] # 0
    /\ held[k] < MaxVersion
    /\ LET v == update_timestamp(held[k])
           syncing == sync_all \/ should_sync(k)
       IN \E o \in (IF Wrote("file", syncing) THEN FileOutcomes ELSE {"unused"}) :
          LET success == SaveOutcome(layers[1], o) = "ok"
              slower == IF syncing
                        THEN [i \in 1..(Len(layers) - 1) |->
                                 SaveOutcome(layers[i + 1], o)]
                        ELSE <<>>
          IN /\ held' = [held EXCEPT ![k] = v]
             /\ IF Wrote("memory", syncing) THEN MemSave(k, v)
                                           ELSE UNCHANGED <<mem, memOrder>>
             /\ files' = IF Wrote("file", syncing) /\ o = "written"
                         THEN [files EXCEPT ![k] = v] ELSE files
             /\ fileErrors' = (fileErrors \/ o = "fails")
             /\ sinceSync' = IF syncing THEN [sinceSync EXCEPT ![k] = 0]
                                        ELSE sinceSync
             /\ lastCall' = [op |-> "save", key |-> k, version |-> v,
                             ok |-> success]
             /\ lastSave' = [sync_all |-> sync_all,
                             primary |-> SaveOutcome(layers[1], o),
                             slower |-> slower,
                             raised |-> /\ ~SwallowsSaveError
                                        /\ \E i \in 1..Len(layers) :
                                              /\ Wrote(layers[i], syncing)
                                              /\ SaveOutcome(layers[i], o) = "raises"]
             /\ lastOk' = IF success THEN [lastOk EXCEPT ![k] = v] ELSE lastOk
             /\ maxWritten' = IF success /\ v > maxWritten[k]
                              THEN [maxWritten EXCEPT ![k] = v] ELSE maxWritten
    /\ fresh' = [fresh EXCEPT ![k] = FALSE]
    /\ UNCHANGED layers

\* Whether layer.load of a layer of this kind raises.
LoadRaises(kind) == kind = "abstract"

\* layer.load(key) of the layers that implement it.
LayerLoad(kind, k) == IF kind = "memory" THEN mem[k] ELSE files[k]

\* A load_state without the try / except around layer.load.
CatchesLoadError_Not == FALSE

\* load_state wraps layer.load in try / except Exception and continues.
CatchesLoadError == TRUE

RECURSIVE load_from(_, _)
\* The loop of load_state over the layers q.
load_from(q, k) ==
    IF q = <<>> THEN 0
    ELSE IF LoadRaises(Head(q))
         THEN IF CatchesLoadError THEN load_from(Tail(q), k) ELSE Raised
    ELSE IF LayerLoad(Head(q), k) # 0 THEN LayerLoad(Head(q), k)
    ELSE load_from(Tail(q), k)

\* A load_state that asks the slowest layer first.
LoadOrder_Reversed(q) == [i \in 1..Len(q) |-> q[Len(q) + 1 - i]]

\* "for layer in self._layers": the layers are asked in the order in which
\* add_layer appended them, which is also the order of _write_layers.
LoadOrder(q) == q

\* MultiLayerStateManager.load_state
load_state(k) == load_from(LoadOrder(layers), k)

\* Whether load_state reaches the memory layer and finds the key there.
MemHit(k) ==
    \E p \in 1..Len(layers) :
        /\ layers[p] = "memory" /\ mem[k] # 0
        /\ \A i \in 1..(p - 1) :
              LoadRaises(layers[i]) \/ LayerLoad(layers[i], k) = 0

\* The caller awaits load_state(k) and keeps the object it returns.
LoadStateBody(k) ==
    /\ held' = [held EXCEPT ![k] = IF load_state(k) = Raised THEN @
                                                            ELSE load_state(k)]
    /\ memOrder' = IF MemHit(k) THEN Touch(memOrder, k) ELSE memOrder
    /\ lastCall' = [op |-> "load", key |-> k, version |-> load_state(k),
                    ok |-> load_state(k) > 0]
    /\ UNCHANGED <<layers, mem, files, sinceSync, lastSave, fileErrors, lastOk,
                   fresh, maxWritten>>

\* load_state returned None and the caller constructs a SessionState, whose
\* version is 1.
NewSessionBody(k) ==
    /\ lastCall = [op |-> "load", key |-> k, version |-> 0, ok |-> FALSE]
    /\ held[k] = 0
    /\ held' = [held EXCEPT ![k] = 1]
    /\ UNCHANGED <<layers, mem, memOrder, files, sinceSync, lastCall, lastSave,
                   fileErrors, lastOk, fresh, maxWritten>>

\* The process ends and a new one builds the same manager: the memory layer,
\* _last_sync and the caller's objects are gone, the files are kept.
ProcessRestartBody ==
    /\ \E k \in Sessions : lastOk[k] # 0
    /\ mem' = [k \in Sessions |-> 0]
    /\ memOrder' = <<>>
    /\ sinceSync' = [k \in Sessions |-> None]
    /\ held' = [k \in Sessions |-> 0]
    /\ lastCall' = NoCall2
    /\ lastSave' = NoSave
    /\ fresh' = [k \in Sessions |-> TRUE]
    /\ UNCHANGED <<layers, files, fileErrors, lastOk, maxWritten>>

\* SyncTick seconds pass.
SyncTickBody ==
    /\ \E k \in Sessions : sinceSync[k] # None /\ sinceSync[k] < SyncInterval
    /\ sinceSync' = [k \in Sessions |->
                       IF sinceSync[k] # None /\ sinceSync[k] < SyncInterval
                       THEN sinceSync[k] + SyncTick ELSE sinceSync[k]]
    /\ UNCHANGED <<layers, mem, memOrder, files, held, lastCall, lastSave,
                   fileErrors, lastOk, fresh, maxWritten>>

\* What the state manager never touches.
notSmVars == <<cbVars, now, retryVars, orchVars, dlqVars, extVars>>

SaveState(k) == \E sync_all \in BOOLEAN : SaveStateBody(k, sync_all) /\ UNCHANGED notSmVars
LoadState(k) == LoadStateBody(k) /\ UNCHANGED notSmVars
NewSession == \E k \in Sessions : NewSessionBody(k) /\ UNCHANGED notSmVars
ProcessRestart == ProcessRestartBody /\ UNCHANGED notSmVars
SyncClock == SyncTickBody /\ UNCHANGED notSmVars


\* ------------------------------------------------------------------------
\* src/state_persistence.py: FilePersistenceLayer.save and load of one key
\* ------------------------------------------------------------------------
\* save is a coroutine: it awaits aiofiles.open, f.write and the close of
\* the file, and other coroutines run at each await. A file is what a reader
\* would find in it: nothing ("empty"), the beginning of a record
\* ("partial"), one record of some version ("complete") or bytes of two
\* writers ("garbled"); "absent" when the path does not exist.
Savers == 1..NSavers
Absent == [st |-> "absent", ver |-> 0]
Empty == [st |-> "empty", ver |-> 0]
Partial(v) == [st |-> "partial", ver |-> v]
Complete(v) == [st |-> "complete", ver |-> v]
Garbled == [st |-> "garbled", ver |-> 0]
IdleSaver == [pc |-> "idle", ver |-> 0, at |-> "none"]

FileInit ==
    /\ fTarget = Absent
    /\ fTmp = Absent
    /\ fsav = [s \in Savers |-> IdleSaver]
    /\ fNext = 1
    /\ fDone = {}
    /\ fRead = [op |-> "none", ver |-> 0, ok |-> FALSE]

\* The file a saver's handle is open on; a handle on a file that was
\* replaced writes to bytes no path leads to.
At(s) == IF fsav[s].at = "tmp" THEN fTmp
         ELSE IF fsav[s].at = "target" THEN fTarget ELSE Absent

\* aiofiles.open(temp_path, 'w'): creates the temporary file or truncates the
\* one that is there, which the handles of other savers stay open on.
FOpenBody(s) ==
    /\ fsav[s].pc = "idle"
    /\ fNext <= MaxSaves
    /\ fTmp' = Empty
    /\ fsav' = [fsav EXCEPT ![s] = [pc |-> "opened", ver |-> fNext, at |-> "tmp"]]
    /\ fNext' = fNext + 1
    /\ UNCHANGED <<fTarget, fDone, fRead>>

\* What a file holds after saver s has written the first part of its record
\* at offset 0.
AfterFirstPart(s, f) == IF f = Empty THEN Partial(fsav[s].ver) ELSE Garbled

\* What a file can hold after saver s has written all that is left of its
\* record: a saver that has written nothing yet writes the whole record at
\* offset 0, over what another saver may have put there; a saver that has
\* written a part goes on at its offset.
AfterLastPart(s, f) ==
    IF fsav[s].pc = "opened"
    THEN IF f = Empty THEN {Complete(fsav[s].ver)}
                      ELSE {Complete(fsav[s].ver), Garbled}
    ELSE IF f = Partial(fsav[s].ver) THEN {Complete(fsav[s].ver)}
                                     ELSE {Garbled}

\* The file at a path after saver s has written c through its handle.
Written(s, path, c) ==
    IF fsav[s].at = path THEN c ELSE IF path = "tmp" THEN fTmp ELSE fTarget

\* await f.write(...) of a record larger than the buffer: the first part
\* reaches the file.
FWriteBody(s) ==
    /\ fsav[s].pc = "opened"
    /\ fTmp' = Written(s, "tmp", AfterFirstPart(s, fTmp))
    /\ fTarget' = Written(s, "target", AfterFirstPart(s, fTarget))
    /\ fsav' = [fsav EXCEPT ![s].pc = "writing"]
    /\ UNCHANGED <<fNext, fDone, fRead>>

\* Where the handles of the other savers are after temp_path was renamed
\* to file_path.
AfterReplace(s, h) ==
    IF h.at = "tmp" THEN [h EXCEPT !.at = "target"]
    ELSE IF h.at = "target" THEN [h EXCEPT !.at = "gone"]
    ELSE h

\* The end of the "async with" (the rest of the record is flushed and the
\* file closed) and temp_path.replace(file_path), which raises
\* FileNotFoundError when another saver has renamed the temporary file
\* away; save returns True, or False from its except clause.
FFinishBody(s) ==
    /\ fsav[s].pc \in {"opened", "writing"}
    /\ \E c \in AfterLastPart(s, At(s)) :
         LET tmp == Written(s, "tmp", c)
             target == Written(s, "target", c)
         IN IF tmp # Absent
            THEN /\ fTarget' = tmp
                 /\ fTmp' = Absent
                 /\ fsav' = [t \in Savers |->
                               IF t = s THEN IdleSaver
                               ELSE AfterReplace(s, fsav[t])]
                 /\ fDone' = fDone \cup {fsav[s].ver}
                 /\ fRead' = [op |-> "save", ver |-> fsav[s].ver, ok |-> TRUE]
            ELSE /\ fTarget' = target
                 /\ fTmp' = tmp
                 /\ fsav' = [fsav EXCEPT ![s] = IdleSaver]
                 /\ fDone' = fDone
                 /\ fRead' = [op |-> "save", ver |-> fsav[s].ver, ok |-> FALSE]
    /\ UNCHANGED fNext

\* FilePersistenceLayer.load: None (0) when the file does not exist; the
\* record when json.loads accepts the content; otherwise the exception is
\* caught and _load_from_backup finds no snapshot (one is taken only every
\* tenth version) and returns None.
LoadResult(f) == IF f.st = "complete" THEN f.ver ELSE 0

FLoadBody ==
    /\ fRead' = [op |-> "load", ver |-> LoadResult(fTarget),
                 ok |-> LoadResult(fTarget) # 0]
    /\ UNCHANGED <<fTarget, fTmp, fsav, fNext, fDone>>

\* The process dies with savers inside save; the files stay as they are.
FCrashBody ==
    /\ \E s \in Savers : fsav[s].pc # "idle"
    /\ fsav' = [s \in Savers |-> IdleSaver]
    /\ fRead' = [op |-> "none", ver |-> 0, ok |-> FALSE]
    /\ UNCHANGED <<fTarget, fTmp, fNext, fDone>>

notFileVars ==
    <<cbVars, now, retryVars, orchVars, dlqVars, smVars, backoffVars, classVars,
      obsVars>>

FOpen(s) == FOpenBody(s) /\ UNCHANGED notFileVars
FWrite(s) == FWriteBody(s) /\ UNCHANGED notFileVars
FFinish(s) == FFinishBody(s) /\ UNCHANGED notFileVars
FLoad == FLoadBody /\ UNCHANGED notFileVars
FCrash == FCrashBody /\ UNCHANGED notFileVars

\* ------------------------------------------------------------------------
\* src/retry_mechanism.py: RetryContext.calculate_delay
\* ------------------------------------------------------------------------
\* Delays are whole seconds before the jitter; a jittered delay is kept in
\* units of 1 / JitterScale seconds, in which it is a whole number.
JitterMaxHalves == 1
JitterScale == 2 * JitterSteps

\* The configurations: base_delay, max_delay and exponential_base of at
\* least 1, with and without jitter, jitter_max at its default.
BackoffConfigs ==
    [base_delay : {1, 2}, max_delay : {1, 10, 60}, exponential_base : {1, 2, 3},
     jitter : BOOLEAN]

\* What random.uniform(-1, 1) can give, times JitterSteps.
Uniform == (0 - JitterSteps)..JitterSteps

NoDelay == [attempt |-> None, u |-> 0, delay |-> 0]

BackoffInit(cfgs) ==
    /\ bcfg \in cfgs
    /\ bcall = NoDelay

RECURSIVE Power(_, _)
\* b ** n
Power(b, n) == IF n = 0 THEN 1 ELSE b * Power(b, n - 1)

Min(a, b) == IF a <= b THEN a ELSE b
Max(a, b) == IF a >= b THEN a ELSE b

\* The first two statements of calculate_delay: the capped backoff, in
\* seconds.
backoff(cfg, n) ==
    LET delay == cfg.base_delay * Power(cfg.exponential_base, n)
    IN Min(delay, cfg.max_delay)

\* A jitter of delay * uniform(-1, 1), without the factor jitter_max.
jitter_amount_Wide(delay, u) == delay * 2 * u

\* jitter_amount = delay * jitter_max * random.uniform(-1, 1), in units of
\* 1 / JitterScale seconds.
jitter_amount(delay, u) == delay * JitterMaxHalves * u

\* RetryContext.calculate_delay(attempt), in units of 1 / JitterScale
\* seconds; u is what random.uniform gives if it is called.
calculate_delay(cfg, n, u) ==
    IF cfg.jitter
    THEN Max(0, JitterScale * backoff(cfg, n) + jitter_amount(backoff(cfg, n), u))
    ELSE JitterScale * backoff(cfg, n)

\* A call of calculate_delay.
CalculateDelayBody ==
    /\ \E n \in 0..MaxAttempt, u \in Uniform :
          bcall' = [attempt |-> n, u |-> IF bcfg.jitter THEN u ELSE 0,
                    delay |-> calculate_delay(bcfg, n, u)]
    /\ UNCHANGED bcfg

notBackoffVars ==
    <<cbVars, now, retryVars, orchVars, dlqVars, smVars, fileVars, classVars,
      obsVars>>

CalculateDelay == CalculateDelayBody /\ UNCHANGED notBackoffVars

\* ------------------------------------------------------------------------
\* src/error_classification.py: ErrorClassifier.classify
\* ------------------------------------------------------------------------
\* An error is known by the keywords of the classifier's tables that are
\* substrings of str(error).lower() (msg) and of type(error).__name__.lower()
\* (type). The model's errors contain keywords of the tables below only.
\* NON_RETRYABLE_PATTERNS, in the order of the dict: auth, validation.
NonRetryablePatterns == <<{"unauthorized", "invalid key"}, {"invalid"}>>

\* RETRYABLE_PATTERNS, in the order of the dict.
RetryablePatterns ==
    <<[type |-> "rate_limit", pats |-> {"rate limit"}],
      [type |-> "timeout", pats |-> {"timeout"}],
      [type |-> "transient", pats |-> {"unavailable"}],
      [type |-> "service_down", pats |-> {"service unavailable"}]>>

\* The keyword lists of _determine_category, in the order of its elif chain.
CategoryKeywords ==
    <<[cat |-> "AI_MODEL", words |-> {"ai"}],
      [cat |-> "DOCUMENT_PROCESSING", words |-> {"document"}],
      [cat |-> "MEMORY", words |-> {"memory"}]>>

MsgKeywords ==
    {"unauthorized", "invalid key", "invalid", "rate limit", "timeout",
     "unavailable", "service unavailable", "ai", "document", "memory"}
TypeKeywords == {"timeout", "invalid", "ai"}

\* Keyword pairs <<a, b>> with a a substring of b: a text that contains b
\* contains a.
Inside ==
    {<<"invalid", "invalid key">>, <<"unavailable", "service unavailable">>,
     <<"ai", "unavailable">>, <<"ai", "service unavailable">>}

Closed(S) == \A pr \in Inside : pr[2] \in S => pr[1] \in S

\* What is registered for type(error) in _custom_classifiers: nothing, a
\* callable that returns a ClassifiedError, a callable that raises.
CustomKinds == {"none", "returns", "raises"}

Errors ==
    {e \in [msg : SUBSET MsgKeywords, type : SUBSET TypeKeywords,
            custom : CustomKinds] : Closed(e.msg)}

NoResult ==
    [op |-> "none", raised |-> FALSE, category |-> "none", severity |-> "none",
     is_retryable |-> FALSE, max_retries |-> 0, delay_tenths |-> 0]

ClassInit(errs) ==
    /\ cerr \in errs
    /\ cres = NoResult

\* any(p in error_msg or p in error_type.lower() for p in pattern_list)
MatchesAny(e, pats) == \E p \in pats : p \in e.msg \/ p \in e.type

RECURSIVE category_from(_, _)
\* ErrorClassifier._determine_category: the first list with a match.
category_from(e, q) ==
    IF q = <<>> THEN "UNKNOWN"
    ELSE IF MatchesAny(e, Head(q).words) THEN Head(q).cat
    ELSE category_from(e, Tail(q))

determine_category(e) == category_from(e, CategoryKeywords)

\* (is_retryable, severity, max_retries, delay_base in tenths of a second)
Tuple(r, sev, n, d) ==
    [is_retryable |-> r, severity |-> sev, max_retries |-> n, delay_tenths |-> d]

\* The return statements of the loop over RETRYABLE_PATTERNS.
RetryableTuple(pattern_type) ==
    CASE pattern_type = "rate_limit" -> Tuple(TRUE, "MEDIUM", 5, 20)
      [] pattern_type = "timeout" -> Tuple(TRUE, "MEDIUM", 3, 10)
      [] pattern_type = "service_down" -> Tuple(TRUE, "HIGH", 10, 50)
      [] OTHER -> Tuple(TRUE, "TRANSIENT", 3, 5)

\* category_defaults.get(category, (True, MEDIUM, 2, 1.0))
CategoryDefault(category) ==
    CASE category = "AI_MODEL" -> Tuple(TRUE, "HIGH", 3, 10)
      [] category = "DOCUMENT_PROCESSING" -> Tuple(FALSE, "HIGH", 0, 0)
      [] category = "MEMORY" -> Tuple(FALSE, "CRITICAL", 0, 0)
      [] OTHER -> Tuple(TRUE, "MEDIUM", 2, 10)

RECURSIVE retryable_from(_, _, _)
\* The loop over RETRYABLE_PATTERNS, then the category default.
retryable_from(e, q, category) ==
    IF q = <<>> THEN CategoryDefault(category)
    ELSE IF MatchesAny(e, Head(q).pats) THEN RetryableTuple(Head(q).type)
    ELSE retryable_from(e, Tail(q), category)

NonRetryableMatch(e) ==
    \E i \in 1..Len(NonRetryablePatterns) : MatchesAny(e, NonRetryablePatterns[i])

RetryableMatch(e) ==
    \E i \in 1..Len(RetryablePatterns) : MatchesAny(e, RetryablePatterns[i].pats)

\* An _analyze_retryability that looks at RETRYABLE_PATTERNS first.
analyze_retryability_RetryableFirst(e, category) ==
    IF RetryableMatch(e) THEN retryable_from(e, RetryablePatterns, category)
    ELSE IF NonRetryableMatch(e) THEN Tuple(FALSE, "HIGH", 0, 0)
    ELSE CategoryDefault(category)

\* ErrorClassifier._analyze_retryability
analyze_retryability(e, category) ==
    IF NonRetryableMatch(e) THEN Tuple(FALSE, "HIGH", 0, 0)
    ELSE retryable_from(e, RetryablePatterns, category)

\* What a registered classifier that returns gives back: any tuple it likes;
\* the model's one marks its result with the category "custom".
CustomResult ==
    [op |-> "done", raised |-> FALSE, category |-> "custom", severity |-> "LOW",
     is_retryable |-> FALSE, max_retries |-> 0, delay_tenths |-> 0]

\* ErrorClassifier.classify
classify(e) ==
    IF e.custom # "none"
    THEN IF e.custom = "raises" THEN [NoResult EXCEPT !.op = "done", !.raised = TRUE]
                                ELSE CustomResult
    ELSE LET category == determine_category(e)
             t == analyze_retryability(e, category)
         IN [op |-> "done", raised |-> FALSE, category |-> category,
             severity |-> t.severity, is_retryable |-> t.is_retryable,
             max_retries |-> t.max_retries, delay_tenths |-> t.delay_tenths]

\* A call of classify(error).
ClassifyBody ==
    /\ cres.op = "none"
    /\ cres' = classify(cerr)
    /\ UNCHANGED cerr

notClassVars ==
    <<cbVars, now, retryVars, orchVars, dlqVars, smVars, fileVars, backoffVars,
      obsVars>>

Classify == ClassifyBody /\ UNCHANGED notClassVars

\* The components modelled on their own, after construction.
ExtInit ==
    /\ HookInit({{}})
    /\ dropped = {}
    /\ FileInit
    /\ BackoffInit({[base_delay |-> 1, max_delay |-> 60, exponential_base |-> 2,
                     jitter |-> TRUE]})
    /\ ClassInit({[msg |-> {}, type |-> {}, custom |-> "none"]})

\* ------------------------------------------------------------------------
\* Orchestrator and Watchdog
\* ------------------------------------------------------------------------
\* Time is kept per task as TrackedTask.elapsed_seconds (time.time() minus
\* started_at), in steps of TickSeconds and saturating at twice the task's
\* timeout: the code compares it only with timeout_seconds and with
\* timeout_seconds * 1.5.
Calls == 1..NCalls
DefaultTimeout == 30
TickSeconds == DefaultTimeout \div 2
ElapsedCap(c) == 2 * task[c].timeout_seconds

\* Orchestrator.timeouts.get(task_type, self.timeouts["default"])
Timeouts(task_type) ==
    CASE task_type = "document_processing" -> 45
      [] task_type = "invoice_generation" -> 30
      [] task_type = "ai_extraction" -> 60
      [] task_type = "file_download" -> 15
      [] OTHER -> DefaultTimeout

\* The task types of the model: one with its own timeout, one that falls
\* back to the default.
TaskTypes == {"file_download", "custom"}

\* How the awaited operation behaves: it finishes or honours the
\* cancellation of asyncio.wait_for ("cooperative"), it ignores the
\* cancellation and finishes when it likes ("stubborn"), or it ignores the
\* cancellation and never finishes ("never").
OpKinds == {"cooperative", "stubborn", "never"}

\* The fallback_handler argument: absent, one that finishes (by returning
\* or raising), one that never finishes.
FallbackKinds == {"none", "finishes", "never"}

NoTask ==
    [status |-> "none", task_type |-> "none", elapsed_seconds |-> 0,
     timeout_seconds |-> 0, error |-> "none", result |-> "none"]

\* A call of execute_with_timeout: where it is (pc), its arguments' behaviour
\* (opKind, fallback), what it returned or raised (ret, raisedErr), and
\* observations of its path: the timeout clause ran (timedOut), the
\* operation raised (opFailed), the fallback returned (fallbackOk), the
\* notifications attempted for its owner by the call (notices) and by the
\* watchdog (wdNotices), whether bot.send_message raised in one of the
\* call's notifications (notifierRaised), and whether the call assigned a
\* field of its task outside "async with self._lock" while the task was in
\* active_tasks (unlocked).
NoCall ==
    [pc |-> "idle", opKind |-> "none", fallback |-> "none", timedOut |-> FALSE,
     opFailed |-> FALSE, fallbackOk |-> FALSE, notices |-> 0, wdNotices |-> 0,
     notifierRaised |-> FALSE, unlocked |-> FALSE, ret |-> "none",
     raisedErr |-> "none"]

\* Orchestrator.__init__, and a Watchdog constructed and started on it.
OrchInit ==
    /\ active_tasks = <<>>
    /\ task_history = {}
    /\ task = [c \in Calls |-> NoTask]
    /\ call = [c \in Calls |-> NoCall]
    /\ wd = [pc |-> "sleeping", stuck |-> <<>>, recoveries |-> 0]

InActive(c) == \E i \in 1..Len(active_tasks) : active_tasks[i] = c

\* A pop that leaves the task in the registry.
Popped_Kept(c) == active_tasks

\* self.active_tasks.pop(task_id)
Popped(c) == SelectSeq(active_tasks, LAMBDA x : x # c)

\* The status complete_task leaves on the task it archives.
CompletedStatus(old) == "COMPLETED"

\* The status fail_task leaves on the task it archives.
FailedStatus(old) == "FAILED"

\* Orchestrator.complete_task, applied to the task objects tk.
complete_task(tk, c, result) ==
    IF InActive(c)
    THEN /\ active_tasks' = Popped(c)
         /\ task' = [tk EXCEPT ![c].status = CompletedStatus(tk[c].status),
                               ![c].result = result]
         /\ task_history' = task_history \cup {c}
    ELSE /\ task' = tk
         /\ UNCHANGED <<active_tasks, task_history>>

\* Orchestrator.fail_task, applied to the task objects tk.
fail_task(tk, c, error) ==
    IF InActive(c)
    THEN /\ active_tasks' = Popped(c)
         /\ task' = [tk EXCEPT ![c].status = FailedStatus(tk[c].status),
                               ![c].error = error]
         /\ task_history' = task_history \cup {c}
    ELSE /\ task' = tk
         /\ UNCHANGED <<active_tasks, task_history>>

\* A notifier without the try / except: its exception leaves the helper.
FeedbackRaises_Unguarded(outcome) == outcome = "raises"

\* Whether an exception of bot.send_message leaves _send_timeout_feedback /
\* _send_error_feedback: both wrap the send in try / except Exception.
FeedbackRaises(outcome) == FALSE

\* How bot.send_message can end.
SendOutcomes == {"delivered", "raises"}

\* TrackedTask.is_timed_out
is_timed_out(c) ==
    task[c].elapsed_seconds > task[c].timeout_seconds /\ task[c].status = "RUNNING"

\* The watchdog's test: elapsed_seconds > timeout_seconds * stuck_threshold,
\* with stuck_threshold = 1.5.
BeyondThreshold(c) == 2 * task[c].elapsed_seconds > 3 * task[c].timeout_seconds

\* asyncio.wait_for's timer has expired for call c.
TimeoutDue(c) ==
    call[c].pc = "waiting" /\ task[c].elapsed_seconds >= task[c].timeout_seconds

\* execute_with_timeout is called: start_task, then asyncio.wait_for starts.
ExecStart(c) ==
    /\ call[c].pc = "idle"
    /\ \E tt \in TaskTypes, ok \in OpKinds, fk \in FallbackKinds :
          /\ task' = [task EXCEPT ![c] =
                         [status |-> "RUNNING", task_type |-> tt,
                          elapsed_seconds |-> 0, timeout_seconds |-> Timeouts(tt),
                          error |-> "none", result |-> "none"]]
          /\ call' = [call EXCEPT ![c].pc = "waiting", ![c].opKind = ok,
                                  ![c].fallback = fk]
    /\ active_tasks' = Append(active_tasks, c)
    /\ UNCHANGED <<task_history, wd>>

\* The operation can finish now: before the timer expires, or at any time
\* if it ignores the cancellation.
OpCanFinish(c) ==
    /\ call[c].pc = "waiting"
    /\ \/ call[c].opKind = "cooperative" /\ ~TimeoutDue(c)
       \/ call[c].opKind = "stubborn"

\* The operation returns: complete_task, return result.
ExecOpReturns(c) ==
    /\ OpCanFinish(c)
    /\ complete_task(task, c, "op_result")
    /\ call' = [call EXCEPT ![c].pc = "returned", ![c].ret = "op_result"]
    /\ UNCHANGED wd

\* The operation raises: "except Exception" runs fail_task and awaits
\* _send_error_feedback.
ExecOpFails(c) ==
    /\ OpCanFinish(c)
    /\ fail_task(task, c, "op_error")
    /\ call' = [call EXCEPT ![c].pc = "error_feedback", ![c].opFailed = TRUE]
    /\ UNCHANGED wd

\* _send_error_feedback ends; the operation's exception is re-raised.
ExecErrorFeedbackDone(c) ==
    /\ call[c].pc = "error_feedback"
    /\ \E o \in SendOutcomes :
          /\ call' = [call EXCEPT
                        ![c].pc = "raised",
                        ![c].notices = @ + 1,
                        ![c].notifierRaised = (o = "raises"),
                        ![c].raisedErr = IF FeedbackRaises(o) THEN "NotifierError"
                                                              ELSE "OpError"]
    /\ UNCHANGED <<active_tasks, task_history, task, wd>>

\* asyncio.wait_for raises TimeoutError (the operation was cancelled):
\* task.status = TIMEOUT, then _send_timeout_feedback is awaited.
ExecTimeout(c) ==
    /\ TimeoutDue(c)
    /\ call[c].opKind \in {"cooperative", "stubborn"}
    /\ task' = [task EXCEPT ![c].status = "TIMEOUT"]
    /\ call' = [call EXCEPT ![c].pc = "timeout_feedback", ![c].timedOut = TRUE,
                            ![c].unlocked = @ \/ InActive(c)]
    /\ UNCHANGED <<active_tasks, task_history, wd>>

\* _send_timeout_feedback ends. With a fallback_handler it is invoked and
\* awaited; without one fail_task runs and the TimeoutError is re-raised.
ExecTimeoutFeedbackDone(c) ==
    /\ call[c].pc = "timeout_feedback"
    /\ \E o \in SendOutcomes :
          /\ IF FeedbackRaises(o)
             THEN /\ call' = [call EXCEPT ![c].pc = "raised", ![c].notices = @ + 1,
                                          ![c].notifierRaised = (o = "raises"),
                                          ![c].raisedErr = "NotifierError"]
                  /\ UNCHANGED <<active_tasks, task_history, task>>
             ELSE IF call[c].fallback # "none"
             THEN /\ call' = [call EXCEPT ![c].pc = "fallback", ![c].notices = @ + 1,
                                          ![c].notifierRaised = (o = "raises")]
                  /\ UNCHANGED <<active_tasks, task_history, task>>
             ELSE /\ fail_task(task, c, "Timeout")
                  /\ call' = [call EXCEPT ![c].pc = "raised", ![c].notices = @ + 1,
                                          ![c].notifierRaised = (o = "raises"),
                                          ![c].raisedErr = "TimeoutError"]
    /\ UNCHANGED wd

\* The fallback returns: task.status = RECOVERED, complete_task, return result.
ExecFallbackReturns(c) ==
    /\ call[c].pc = "fallback"
    /\ call[c].fallback = "finishes"
    /\ complete_task([task EXCEPT ![c].status = "RECOVERED"], c, "fallback_result")
    /\ call' = [call EXCEPT ![c].pc = "returned", ![c].fallbackOk = TRUE,
                            ![c].unlocked = @ \/ InActive(c),
                            ![c].ret = "fallback_result"]
    /\ UNCHANGED wd

\* The fallback raises: it is logged, fail_task runs and the bare raise
\* re-raises the TimeoutError being handled.
ExecFallbackFails(c) ==
    /\ call[c].pc = "fallback"
    /\ call[c].fallback = "finishes"
    /\ fail_task(task, c, "Timeout")
    /\ call' = [call EXCEPT ![c].pc = "raised", ![c].raisedErr = "TimeoutError"]
    /\ UNCHANGED wd

\* Orchestrator.get_stuck_tasks
get_stuck_tasks == SelectSeq(active_tasks, is_timed_out)

RECURSIVE SkipUnder(_)
\* The loop of _check_health up to the first task it recovers: tasks not
\* beyond the threshold are passed over.
SkipUnder(q) ==
    IF q = <<>> THEN q
    ELSE IF BeyondThreshold(Head(q)) THEN q
    ELSE SkipUnder(Tail(q))

\* Watchdog._check_health wakes up: get_stuck_tasks, then the loop runs to
\* the first recover_stuck_task, which awaits _send_timeout_feedback.
WdCheck ==
    /\ wd.pc = "sleeping"
    /\ LET q == SkipUnder(get_stuck_tasks)
       IN wd' = [wd EXCEPT !.pc = IF q = <<>> THEN "sleeping" ELSE "feedback",
                           !.stuck = q]
    /\ UNCHANGED <<active_tasks, task_history, task, call>>

\* recover_stuck_task after its _send_timeout_feedback: fail_task, then
\* _check_health counts stats["recoveries_triggered"] and the loop goes on to
\* the next task to recover.
WdFeedbackDone ==
    /\ wd.pc = "feedback"
    /\ LET c == Head(wd.stuck)
       IN /\ \E o \in SendOutcomes :
                IF FeedbackRaises(o)
                THEN \* _recover_task logs the exception; fail_task is skipped
                     UNCHANGED <<active_tasks, task_history, task>>
                ELSE fail_task(task, c, "Stuck task recovered by watchdog")
          /\ call' = [call EXCEPT ![c].wdNotices = @ + 1]
          /\ LET q == SkipUnder(Tail(wd.stuck))
             IN wd' = [pc |-> IF q = <<>> THEN "sleeping" ELSE "feedback",
                       stuck |-> q, recoveries |-> wd.recoveries + 1]

InStuck(c) == \E i \in 1..Len(wd.stuck) : wd.stuck[i] = c

\* The tasks whose elapsed_seconds still changes what the code can do: those
\* someone will still read it of (the call waiting in asyncio.wait_for, the
\* registry scan, the watchdog's list), below the cap.
Ageing(c) ==
    /\ call[c].pc = "waiting" \/ InActive(c) \/ InStuck(c)
    /\ task[c].elapsed_seconds < ElapsedCap(c)

\* TickSeconds pass. asyncio.wait_for's timer fires on time: time does not
\* pass over a due timeout of an operation that honours cancellation.
OrchTick ==
    /\ \A c \in Calls : ~(TimeoutDue(c) /\ call[c].opKind = "cooperative")
    /\ \E c \in Calls : Ageing(c)
    /\ task' = [c \in Calls |->
                  IF Ageing(c)
                  THEN [task[c] EXCEPT !.elapsed_seconds = @ + TickSeconds]
                  ELSE task[c]]
    /\ UNCHANGED <<active_tasks, task_history, call, wd>>

\* One step of the call with task id c.
ExecStep(c) ==
    \/ ExecOpReturns(c)
    \/ ExecOpFails(c)
    \/ ExecErrorFeedbackDone(c)
    \/ ExecTimeout(c)
    \/ ExecTimeoutFeedbackDone(c)
    \/ ExecFallbackReturns(c)
    \/ ExecFallbackFails(c)

\* What the orchestrator and the watchdog never touch.
notOrchVars == <<cbVars, now, retryVars, dlqVars, smVars, extVars>>

Start == \E c \in Calls : ExecStart(c) /\ UNCHANGED notOrchVars
OpReturned == \E c \in Calls : ExecOpReturns(c) /\ UNCHANGED notOrchVars
OpFailed == \E c \in Calls : ExecOpFails(c) /\ UNCHANGED notOrchVars
ErrorFeedbackDone == \E c \in Calls : ExecErrorFeedbackDone(c) /\ UNCHANGED notOrchVars
TimedOut == \E c \in Calls : ExecTimeout(c) /\ UNCHANGED notOrchVars
TimeoutFeedbackDone == \E c \in Calls : ExecTimeoutFeedbackDone(c) /\ UNCHANGED notOrchVars
FallbackReturned == \E c \in Calls : ExecFallbackReturns(c) /\ UNCHANGED notOrchVars
FallbackFailed == \E c \in Calls : ExecFallbackFails(c) /\ UNCHANGED notOrchVars
WatchdogCheck == WdCheck /\ UNCHANGED notOrchVars
WatchdogFeedbackDone == WdFeedbackDone /\ UNCHANGED notOrchVars
Clock == OrchTick /\ UNCHANGED notOrchVars

InitOrch ==
    /\ CBInit({DefaultBreakerConfig})
    /\ now = 1
    /\ RetryInit({DefaultRetryConfig})
    /\ OrchInit
    /\ DLQInit({"working"})
    /\ SMInit({DefaultLayers})
    /\ ExtInit

NextOrch ==
    \/ Start
    \/ OpReturned
    \/ OpFailed
    \/ ErrorFeedbackDone
    \/ TimedOut
    \/ TimeoutFeedbackDone
    \/ FallbackReturned
    \/ FallbackFailed
    \/ WatchdogCheck
    \/ WatchdogFeedbackDone
    \/ Clock

SpecOrch == InitOrch /\ [][NextOrch]_vars

\* The asyncio event loop runs every coroutine that is ready, the watchdog
\* loop included, and time passes.
FairSpecOrch ==
    /\ SpecOrch
    /\ \A c \in Calls : WF_vars(ExecStep(c) /\ UNCHANGED notOrchVars)
    /\ WF_vars(WatchdogCheck)
    /\ WF_vars(WatchdogFeedbackDone)
    /\ WF_vars(Clock)

InitDLQ ==
    /\ CBInit({DefaultBreakerConfig})
    /\ now = 1
    /\ RetryInit({DefaultRetryConfig})
    /\ OrchInit
    /\ DLQInit(StorageKinds)
    /\ SMInit({DefaultLayers})
    /\ ExtInit

\* The queue with its operators: enqueue, register_handler, the processor
\* loop, retry_item and discard_item.
NextDLQ ==
    \/ Enqueue
    \/ RegisterHandler
    \/ SweepStart
    \/ SweepBegin
    \/ SweepHandlerDone
    \/ RetryItem
    \/ ManualBegin
    \/ ManualHandlerDone
    \/ DiscardItem
    \/ DLQClock

SpecDLQ == InitDLQ /\ [][NextDLQ]_vars

\* The queue left to its processor loop: nobody calls retry_item or
\* discard_item.
NextSweep ==
    \/ Enqueue
    \/ RegisterHandler
    \/ SweepStart
    \/ SweepBegin
    \/ SweepHandlerDone
    \/ DLQClock

SpecSweep == InitDLQ /\ [][NextSweep]_vars

\* The processor loop keeps waking up, the handlers it awaits finish, and
\* time passes.
FairSpecSweep ==
    /\ SpecSweep
    /\ WF_vars(SweepStart)
    /\ WF_vars(SweepBegin)
    /\ WF_vars(SweepHandlerDone)
    /\ WF_vars(DLQClock)

\* The queue left to its processor loop in a process that can die and be
\* started again on the same storage directory.
NextStore ==
    \/ Enqueue
    \/ RegisterHandler
    \/ SweepStart
    \/ SweepBegin
    \/ SweepHandlerDone
    \/ DLQClock
    \/ Restart
    \/ CrashInSave

SpecStore == InitDLQ /\ [][NextStore]_vars

\* The queue left to its processor loop and an operator who discards items.
NextDiscard ==
    \/ Enqueue
    \/ RegisterHandler
    \/ SweepStart
    \/ SweepBegin
    \/ SweepHandlerDone
    \/ DiscardSeen
    \/ DLQClock

SpecDiscard == InitDLQ /\ [][NextDiscard]_vars

InitSM ==
    /\ CBInit({DefaultBreakerConfig})
    /\ now = 1
    /\ RetryInit({DefaultRetryConfig})
    /\ OrchInit
    /\ DLQInit({"working"})
    /\ SMInit(LayerConfigs)
    /\ ExtInit

\* A caller that gets or creates its session objects and saves them, in a
\* process that can be restarted.
NextSM ==
    \/ \E k \in Sessions : SaveState(k)
    \/ \E k \in Sessions : LoadState(k)
    \/ NewSession
    \/ ProcessRestart
    \/ SyncClock

SpecSM == InitSM /\ [][NextSM]_vars

\* The same callers in one process, which is never restarted.
NextProcess ==
    \/ \E k \in Sessions : SaveState(k)
    \/ \E k \in Sessions : LoadState(k)
    \/ NewSession
    \/ SyncClock

SpecProcess == InitSM /\ [][NextProcess]_vars

InitLayers ==
    /\ CBInit({DefaultBreakerConfig})
    /\ now = 1
    /\ RetryInit({DefaultRetryConfig})
    /\ OrchInit
    /\ DLQInit({"working"})
    /\ SMInit(AllLayerConfigs)
    /\ ExtInit

\* The same callers on every manager add_layer can build.
SpecLayers == InitLayers /\ [][NextSM]_vars

InitFile ==
    /\ CBInit({DefaultBreakerConfig})
    /\ now = 1
    /\ RetryInit({DefaultRetryConfig})
    /\ OrchInit
    /\ DLQInit({"working"})
    /\ SMInit({DefaultLayers})
    /\ ExtInit

\* Coroutines that save the records of one key, a reader, and crashes.
NextFile ==
    \/ \E s \in Savers : FOpen(s)
    \/ \E s \in Savers : FWrite(s)
    \/ \E s \in Savers : FFinish(s)
    \/ FLoad
    \/ FCrash

SpecFile == InitFile /\ [][NextFile]_vars

InitBackoff ==
    /\ CBInit({DefaultBreakerConfig})
    /\ now = 1
    /\ RetryInit({DefaultRetryConfig})
    /\ OrchInit
    /\ DLQInit({"working"})
    /\ SMInit({DefaultLayers})
    /\ HookInit({{}})
    /\ dropped = {}
    /\ FileInit
    /\ BackoffInit(BackoffConfigs)
    /\ ClassInit({[msg |-> {}, type |-> {}, custom |-> "none"]})

NextBackoff == CalculateDelay

SpecBackoff == InitBackoff /\ [][NextBackoff]_vars

InitClassify ==
    /\ CBInit({DefaultBreakerConfig})
    /\ now = 1
    /\ RetryInit({DefaultRetryConfig})
    /\ OrchInit
    /\ DLQInit({"working"})
    /\ SMInit({DefaultLayers})
    /\ HookInit({{}})
    /\ dropped = {}
    /\ FileInit
    /\ BackoffInit({[base_delay |-> 1, max_delay |-> 60, exponential_base |-> 2,
                     jitter |-> TRUE]})
    /\ ClassInit(Errors)

NextClassify == Classify

SpecClassify == InitClassify /\ [][NextClassify]_vars

InitCB ==
    /\ CBInit(CircuitBreakerConfigs)
    /\ now = 1
    /\ RetryInit({DefaultRetryConfig})
    /\ OrchInit
    /\ DLQInit({"working"})
    /\ SMInit({DefaultLayers})
    /\ ExtInit

\* The breaker configurations the retry runs are checked with.
RetryBreakerConfigs ==
    {c \in CircuitBreakerConfigs :
        /\ c.recovery_timeout = MaxRecovery
        /\ c.half_open_max_calls = 1
        /\ c.success_threshold = 1}

InitRetry ==
    /\ CBInit(RetryBreakerConfigs)
    /\ now = 1
    /\ RetryInit(RetryConfigs)
    /\ OrchInit
    /\ DLQInit({"working"})
    /\ SMInit({DefaultLayers})
    /\ ExtInit

NextRetry ==
    \/ RetryCall
    \/ RetryWake
    \/ OpReturns
    \/ OpRaises
    \/ RetryRejected
    \/ OtherFailure
    \/ OtherSuccess
    \/ Tick

SpecRetry == InitRetry /\ [][NextRetry]_vars

\* async_retry with a breaker attached that opens at the first failure, for
\* every probe budget and success threshold, with and without a retry.
ProbeBreakerConfigs ==
    {c \in CircuitBreakerConfigs :
        c.failure_threshold = 1 /\ c.recovery_timeout = 1}

ProbeRetryConfigs ==
    {c \in RetryConfigs :
        /\ c.decorator = "async_retry"
        /\ c.circuit_breaker
        /\ c.max_retries <= 1
        /\ c.non_retryable_exceptions = {}
        /\ c.retryable_exceptions = {}}

InitProbe ==
    /\ CBInit(ProbeBreakerConfigs)
    /\ now = 1
    /\ RetryInit(ProbeRetryConfigs)
    /\ OrchInit
    /\ DLQInit({"working"})
    /\ SMInit({DefaultLayers})
    /\ ExtInit

SpecProbe == InitProbe /\ [][NextRetry]_vars

\* Callers keep calling the wrapper, every invocation of the function ends,
\* every backoff sleep ends and a raised CircuitBreakerOpenError reaches its
\* except clause.
FairSpecProbe ==
    /\ SpecProbe
    /\ WF_vars(RetryCall)
    /\ WF_vars(RetryWake)
    /\ WF_vars(OpReturns \/ OpRaises)
    /\ WF_vars(RetryRejected)

NextCB ==
    \/ CanExecute
    \/ RecordSuccess
    \/ RecordFailure
    \/ ForceOpen
    \/ ForceClose
    \/ Tick

SpecCB == InitCB /\ [][NextCB]_vars

\* The breaker with hooks that raise. The probe budget and the recovery
\* timeout are fixed: which hook a transition calls does not depend on them.
InitHooks ==
    /\ CBInit({c \in CircuitBreakerConfigs :
                    c.recovery_timeout = 1 /\ c.half_open_max_calls = 1})
    /\ HookInit(SUBSET Hooks)
    /\ dropped = {}
    /\ now = 1
    /\ RetryInit({DefaultRetryConfig})
    /\ OrchInit
    /\ DLQInit({"working"})
    /\ SMInit({DefaultLayers})
    /\ FileInit
    /\ BackoffInit({[base_delay |-> 1, max_delay |-> 60, exponential_base |-> 2,
                     jitter |-> TRUE]})
    /\ ClassInit({[msg |-> {}, type |-> {}, custom |-> "none"]})

SpecHooks == InitHooks /\ [][NextCB]_vars

\* ------------------------------------------------------------------------
\* Claims about the CircuitBreaker (checked under SpecCB)
\* ------------------------------------------------------------------------

\* C1: a CLOSED breaker that has seen failure_threshold record_failure()
\* calls in a row (no record_success() in between) is OPEN; while OPEN, a
\* can_execute() made before recovery_timeout has elapsed since the opening
\* returns False and leaves the breaker OPEN, and a can_execute() made once
\* recovery_timeout has elapsed moves it to HALF_OPEN and returns True.
C1_Step ==
    /\ (RecordFailure /\ state = "CLOSED"
            /\ closedFailRun + 1 >= config.failure_threshold)
         => (state' = "OPEN" /\ openSince' = now)
    /\ (CanExecute /\ state = "OPEN" /\ now - openSince < config.recovery_timeout)
         => (lastRet' = FALSE /\ state' = "OPEN")
    /\ (CanExecute /\ state = "OPEN" /\ now - openSince >= config.recovery_timeout)
         => (lastRet' = TRUE /\ state' = "HALF_OPEN")

C1_OpensThenProbes ==
    /\ [](state = "CLOSED" => closedFailRun < config.failure_threshold)
    /\ [](state = "OPEN" => openSince # None)
    /\ [][C1_Step]_vars

\* C1 witness: the breaker was opened, the recovery timeout (not zero) has
\* elapsed, and the can_execute() just made returned True and moved it to
\* HALF_OPEN.
C1_Witness ==
    /\ state = "HALF_OPEN"
    /\ lastOp = "can_execute"
    /\ lastRet = TRUE
    /\ half_open_calls = 0
    /\ config.recovery_timeout > 0
    /\ config.failure_threshold > 1
    /\ now - openSince >= config.recovery_timeout

\* C2: a record_failure() while HALF_OPEN moves the breaker to OPEN and sets
\* opened_at to the time of that failure, whatever successes were recorded
\* earlier in the half-open window.
C2_HalfOpenFailureReopens ==
    [][(RecordFailure /\ state = "HALF_OPEN")
          => (state' = "OPEN" /\ opened_at' = now)]_vars

\* C2 witness: record_failure() was just called on a half-open breaker in
\* whose window a success had been recorded, and the breaker is OPEN again
\* with opened_at re-armed.
C2_Witness ==
    /\ lastOp = "record_failure"
    /\ lastFrom = "HALF_OPEN"
    /\ hoSuccesses >= 1
    /\ state = "OPEN"
    /\ opened_at = now
    /\ config.recovery_timeout > 0

\* C3: within one half-open window, at most half_open_max_calls calls of
\* can_execute() return True, and each of them increments the probe count.
C3_ProbeBudget ==
    state = "HALF_OPEN"
        => (hoAdmits <= config.half_open_max_calls /\ hoAdmits = half_open_calls)

\* ------------------------------------------------------------------------
\* Claims about retry / async_retry (checked under SpecRetry)
\* ------------------------------------------------------------------------

\* C4: with a breaker attached, a run whose can_execute() returned False
\* fails fast: after the refusal the run does nothing but hand
\* CircuitBreakerOpenError to the caller; it starts no backoff sleep, goes to
\* no further loop iteration and does not invoke the function.
C4_FailFast ==
    cbRejected =>
        /\ rpc \in {"rejected", "raised"}
        /\ rpc = "raised" => raisedErr = "CircuitBreakerOpenError"

\* C5: with a breaker attached (and no refusal by the breaker in the run),
\* the run has called record_failure() on the breaker exactly when it has
\* given up and re-raised: once then, and not at all while it is still
\* running, sleeping before a retry, or after it returned.
C5_FailureRecordedAtGiveUp ==
    (rcfg.circuit_breaker /\ rpc # "idle" /\ ~cbRejected) =>
        cbFailCalls = (IF rpc = "raised" THEN 1 ELSE 0)

\* ---------------------------------------------------------------------
\* C6: when the operation exceeds its timeout and the fallback succeeds,
\* execute_with_timeout returns the fallback's result and the task is in
\* task_history with status RECOVERED.
C6_FallbackRecovered ==
    \A c \in Calls :
        (call[c].pc = "returned" /\ call[c].timedOut /\ call[c].fallbackOk)
            => /\ call[c].ret = "fallback_result"
               /\ c \in task_history
               /\ task[c].status = "RECOVERED"

\* C7: when the operation exceeds its timeout and there is no fallback, the
\* TimeoutError is re-raised and the task is in task_history with status
\* TIMEOUT.
C7_TimeoutWithoutFallback ==
    \A c \in Calls :
        (call[c].pc = "raised" /\ call[c].timedOut /\ call[c].fallback = "none")
            => /\ call[c].raisedErr = "TimeoutError"
               /\ c \in task_history
               /\ task[c].status = "TIMEOUT"

\* C8: every call of execute_with_timeout eventually returns or raises,
\* whatever the operation and the fallback do, and its task does not stay in
\* active_tasks forever while the watchdog runs.
C8_CallTerminates ==
    \A c \in Calls :
        (call[c].pc = "waiting")
            ~> (call[c].pc \in {"returned", "raised"} /\ ~InActive(c))

\* C9: on every path through a timeout or an exception of the operation a
\* notification is attempted before the fallback is invoked and before the
\* call returns or raises, and an exception of the notifier never reaches
\* the caller: what is raised is the TimeoutError or the operation's error.
C9_NotifiedAndSwallowed ==
    \A c \in Calls :
        /\ call[c].pc = "fallback" => call[c].notices >= 1
        /\ (call[c].pc \in {"returned", "raised"}
              /\ (call[c].timedOut \/ call[c].opFailed)) => call[c].notices >= 1
        /\ call[c].raisedErr # "NotifierError"
        /\ call[c].pc = "raised" =>
              call[c].raisedErr = (IF call[c].timedOut THEN "TimeoutError"
                                                       ELSE "OpError")

\* A timeout whose notification raised: the call still re-raised the
\* TimeoutError after attempting it.
C9_Witness ==
    \E c \in Calls :
        /\ call[c].pc = "raised"
        /\ call[c].timedOut
        /\ call[c].notifierRaised
        /\ call[c].notices = 1
        /\ call[c].raisedErr = "TimeoutError"

\* ---------------------------------------------------------------------
\* C10: under the automatic sweep an item with a retry budget (max_retries
\* of at least 1) whose registered handler fails on every attempt eventually
\* has status FAILED, and from then on it stays FAILED and is never ready
\* for retry again.
C10_ExhaustedBecomesFailed ==
    \A i \in ItemIds :
        (/\ items[i].operation_type = "broken"
         /\ items[i].max_retries >= 1
         /\ "broken" \in handlers
         /\ items[i].status \in {"PENDING", "RETRYING"})
            ~> [](items[i].status = "FAILED" /\ ~is_ready_for_retry(i))

\* ---------------------------------------------------------------------
\* C11: whatever enqueue, the sweeps, retry_item and discard_item do, an item
\* that is PENDING or RETRYING has retry_count <= max_retries, and
\* retry_count is incremented (mark_retry) only from a value below
\* max_retries, leaving the item RETRYING.
C11_Scheduled(i) ==
    items'[i].retry_count > items[i].retry_count
        => /\ items[i].retry_count < items[i].max_retries
           /\ items'[i].retry_count = items[i].retry_count + 1
           /\ items'[i].status = "RETRYING"

C11_RetryWithinBudget ==
    /\ [](\A i \in ItemIds :
            items[i].status \in {"PENDING", "RETRYING"}
                => items[i].retry_count <= items[i].max_retries)
    /\ [][\A i \in ItemIds : C11_Scheduled(i)]_vars

\* An item whose last retry was scheduled from retry_count = max_retries - 1,
\* while another call of _process_item (retry_item's) holds the same item.
C11_Witness ==
    \E i \in ItemIds :
        /\ items[i].status = "RETRYING"
        /\ items[i].max_retries >= 1
        /\ items[i].retry_count = items[i].max_retries
        /\ man.pc = "handler"
        /\ man.item = i

\* ---------------------------------------------------------------------
\* C12: the items a sweep still has to process are in ascending priority
\* and, among equal priorities, in ascending creation time (ids are given
\* out in creation order), whether the items were enqueued in this process
\* or loaded from disk.
C12_SweepOrder ==
    \A a, b \in 1..Len(proc.ready) :
        a < b =>
            \/ items[proc.ready[a]].priority < items[proc.ready[b]].priority
            \/ /\ items[proc.ready[a]].priority = items[proc.ready[b]].priority
               /\ proc.ready[a] < proc.ready[b]

\* ---------------------------------------------------------------------
\* C13: while a sweep is at its next item, the item it processed last is on
\* disk as it is in memory: a reload would restore it with the same status,
\* retry_count and next_retry_at.
C13_DurableBeforeNext ==
    (proc.pc \in {"next", "handler"} /\ proc.last # 0)
        => /\ Loadable(disk[proc.last])
           /\ from_dict(disk[proc.last]) = items[proc.last]

\* ---------------------------------------------------------------------
\* C14: a record that was once completely on disk stays loadable: at every
\* point, also after a crash in the middle of _save_item, its file holds a
\* complete record, never an empty or partial one.
C14_RecordStaysLoadable == \A i \in stored : Loadable(disk[i])

\* ---------------------------------------------------------------------
\* C15: every call of enqueue returns a fresh item id and leaves the item in
\* the index with status PENDING and retry_count 0, on working and on
\* failing storage.
C15_EnqueueSucceeds ==
    [][Enqueue =>
          LET i == nItems + 1
          IN /\ ~InIndex(i)
             /\ disk[i] = NoFile
             /\ enq' = [id |-> i, raised |-> FALSE]
             /\ index' = Append(index, i)
             /\ items'[i].status = "PENDING"
             /\ items'[i].retry_count = 0]_vars

\* An enqueue on failing storage has returned the id of an item that is in
\* the index and has no file.
C15_Witness ==
    /\ storage = "failing"
    /\ enq.id # 0
    /\ ~enq.raised
    /\ InIndex(enq.id)
    /\ items[enq.id].status = "PENDING"
    /\ items[enq.id].retry_count = 0
    /\ disk[enq.id] = NoFile

\* ---------------------------------------------------------------------
\* C16: an enqueued item whose operation type has no registered handler is
\* eventually DISCARDED by the sweep (unless a handler is registered for it
\* in the meantime), for every max_retries including 0: it does not stay
\* PENDING forever.
C16_OrphanDiscarded ==
    \A i \in ItemIds :
        (items[i].status = "PENDING" /\ ~HasHandler(i))
            ~> (items[i].status = "DISCARDED" \/ HasHandler(i))


\* C17: a record for which save_state returned success is returned, with
\* the same version, by load_state in the process that follows a restart:
\* while no file write has failed, for every key that has not been saved
\* again since the restart, load_state finds the version of the last
\* successful save.
C17_SurvivesRestart ==
    \A k \in Sessions :
        (~fileErrors /\ fresh[k] /\ lastOk[k] # 0) => load_state(k) = lastOk[k]

\* C18: right after a successful save_state of a key, load_state of that
\* key in the same process returns the version just written, whether or not
\* the save synced the slower layers.
C18_ReadYourWrite ==
    (lastCall.op = "save" /\ lastCall.ok)
        => load_state(lastCall.key) = lastCall.version

\* A save that was throttled (the last sync is SyncTick seconds old) while
\* the file layer holds an older version of the same key.
C18_Witness ==
    /\ lastCall.op = "save" /\ lastCall.ok
    /\ sinceSync[lastCall.key] = SyncTick
    /\ files[lastCall.key] # 0
    /\ files[lastCall.key] < lastCall.version
    /\ load_state(lastCall.key) = lastCall.version

\* The first layer's answer if it has the record, else the file layer's.
C19_FirstHit(k) == IF mem[k] # 0 THEN mem[k] ELSE files[k]

\* C19: load_state asks the layers in order and returns the first hit: the
\* memory layer's record when it has one, else the file layer's record, else
\* None; a layer whose load raises is skipped.
C19_FirstHitReturned ==
    lastCall.op = "load" => lastCall.version = C19_FirstHit(lastCall.key)

\* A load answered by the file layer, behind an empty memory layer and a
\* layer whose load raised.
C19_Witness ==
    /\ lastCall.op = "load"
    /\ Len(layers) = 3 /\ LoadRaises(layers[2])
    /\ mem[lastCall.key] = 0
    /\ files[lastCall.key] # 0
    /\ lastCall.version = files[lastCall.key]

\* C20: every successful save_state of a session_id writes a version
\* strictly greater than every version written for it before, across saves,
\* loads and restarts, while no file write fails.
C20_VersionIncreases ==
    [][\A k \in Sessions :
          (SaveState(k) /\ lastCall'.ok /\ ~fileErrors')
              => lastCall'.version > maxWritten[k]]_vars


C22_SaveNeverRaises ==
    lastCall.op = "save" =>
        /\ ~lastSave.raised
        /\ lastCall.ok = (lastSave.primary = "ok")

\* A save that returned True although one slower layer raised and another
\* returned False.
C22_Witness ==
    /\ lastCall.op = "save" /\ lastCall.ok
    /\ \E i \in 1..Len(lastSave.slower) : lastSave.slower[i] = "raises"
    /\ \E i \in 1..Len(lastSave.slower) : lastSave.slower[i] = "false"

\* A save that returned False because the fastest layer raised.
C22_WitnessPrimary ==
    /\ lastCall.op = "save" /\ ~lastCall.ok
    /\ lastSave.primary = "raises"


\* C23: a reader of the file layer never observes a partially written
\* record, also when saves of the same key overlap or the process crashes:
\* a save that returns True leaves its complete record in the file, and once
\* a save has returned True every load returns a complete record that a
\* successful save wrote.
C23_NoPartialRecord ==
    [][/\ \A s \in Savers :
            (FFinish(s) /\ fRead'.ok) => fTarget' = Complete(fRead'.ver)
       /\ (FLoad /\ fDone # {}) => fRead'.ver \in fDone]_vars


\* C24: a watchdog sweep recovers the tasks of the live registry whose
\* elapsed time exceeds timeout * stuck_threshold: whenever the watchdog is
\* about to sweep, every such task is among the tasks the sweep takes for
\* recovery.
C24_SweepRecoversStuck ==
    wd.pc = "sleeping" =>
        \A c \in Calls :
            (InActive(c) /\ BeyondThreshold(c))
                => \E i \in 1..Len(SkipUnder(get_stuck_tasks)) :
                       SkipUnder(get_stuck_tasks)[i] = c


\* The watchdog has recovered the task of call c: it is archived with the
\* watchdog's reason.
C25_Recovered(c) ==
    /\ c \in task_history
    /\ task[c].error = "Stuck task recovered by watchdog"

\* C25: after the watchdog has recovered a task, whatever the leaked
\* operation and its call do later changes neither the status, the error
\* nor the result of the archived task, does not put it back into the live
\* registry and sends no further notification to the owner.
C25_LateOutcomeIgnored ==
    [][\A c \in Calls :
          C25_Recovered(c) =>
              /\ task'[c].status = task[c].status
              /\ task'[c].error = task[c].error
              /\ task'[c].result = task[c].result
              /\ ~\E i \in 1..Len(active_tasks') : active_tasks'[i] = c
              /\ call'[c].notices = call[c].notices
              /\ call'[c].wdNotices = call[c].wdNotices]_vars


\* min(base_delay * exponential_base^attempt, max_delay), in seconds.
C26_Expected(cfg, n) ==
    IF cfg.base_delay * Power(cfg.exponential_base, n) <= cfg.max_delay
    THEN cfg.base_delay * Power(cfg.exponential_base, n)
    ELSE cfg.max_delay

\* C26: without jitter calculate_delay(attempt) is
\* min(base_delay * exponential_base^attempt, max_delay) and does not
\* decrease from one attempt to the next; with jitter what it returns lies
\* between 0 and 1.5 times that value.
C26_BackoffBounds ==
    bcall.attempt # None =>
        /\ ~bcfg.jitter =>
              /\ bcall.delay = JitterScale * C26_Expected(bcfg, bcall.attempt)
              /\ bcall.delay <= calculate_delay(bcfg, bcall.attempt + 1, 0)
        /\ bcfg.jitter =>
              /\ bcall.delay >= 0
              /\ 2 * bcall.delay <= 3 * JitterScale * C26_Expected(bcfg, bcall.attempt)

\* A capped delay that the jitter moved to its upper bound.
C26_Witness ==
    /\ bcall.attempt # None /\ bcfg.jitter
    /\ bcfg.base_delay * Power(bcfg.exponential_base, bcall.attempt) > bcfg.max_delay
    /\ 2 * bcall.delay = 3 * JitterScale * bcfg.max_delay


\* C27: without a custom classifier, an error whose message or type name
\* contains a keyword of the non-retryable set is classified non-retryable
\* with max_retries 0, also when it contains a keyword of the retryable set.
C27_NonRetryableWins ==
    (cres.op = "done" /\ cerr.custom = "none"
       /\ \E p \in {"unauthorized", "invalid key", "invalid"} :
             p \in cerr.msg \/ p \in cerr.type)
        => (~cres.raised /\ ~cres.is_retryable /\ cres.max_retries = 0)

\* A classified error that says "invalid key" and "rate limit".
C27_Witness ==
    /\ cres.op = "done" /\ cerr.custom = "none"
    /\ "invalid key" \in cerr.msg /\ "rate limit" \in cerr.msg
    /\ ~cres.is_retryable

\* C28: classify never raises, also when a registered custom classifier is
\* invoked, and an error that matches no category keyword and no
\* retryability keyword is classified UNKNOWN, MEDIUM, retryable.
C28_ClassifyNeverRaises ==
    cres.op = "done" =>
        /\ ~cres.raised
        /\ (cerr.custom = "none" /\ cerr.msg = {} /\ cerr.type = {})
              => (cres.category = "UNKNOWN" /\ cres.severity = "MEDIUM"
                    /\ cres.is_retryable)

\* ------------------------------------------------------------------------
\* Claims about one run of retry / async_retry (checked under SpecRetry)
\* ------------------------------------------------------------------------

\* C29: one run of retry/async_retry invokes the function at most
\* max_retries + 1 times, never sleeps after the final attempt (iteration
\* max_retries), and ends by returning the result of the first attempt in
\* which the function succeeded: once ctx.record_success() has counted a
\* success the run has returned, so it neither sleeps, nor invokes the
\* function again, nor raises.
C29_BoundedRun ==
    rpc # "idle" =>
        /\ opCalls <= rcfg.max_retries + 1
        /\ rpc = "sleeping" => attempt < rcfg.max_retries
        /\ ctxStats.successes > 0 => rpc = "returned"

\* ------------------------------------------------------------------------
\* Claims about closing the CircuitBreaker (checked under SpecCB)
\* ------------------------------------------------------------------------

\* C30: a record_success() made in HALF_OPEN that completes success_threshold
\* successes in a row since the breaker became HALF_OPEN moves it to CLOSED,
\* and right after a record_success() that closes the breaker
\* consecutive_failures, consecutive_successes and the half-open probe count
\* (_half_open_calls) are all 0.
C30_ClosingResetsCounters ==
    [][(state = "HALF_OPEN" /\ lastOp' = "record_success") =>
          /\ hoSuccesses' >= config.success_threshold => state' = "CLOSED"
          /\ state' = "CLOSED" =>
                /\ consecutive_failures' = 0
                /\ consecutive_successes' = 0
                /\ half_open_calls' = 0]_vars

\* ------------------------------------------------------------------------
\* Claims about the breaker's hooks (checked under SpecHooks)
\* ------------------------------------------------------------------------

\* C31: no call of record_failure, record_success, can_execute, force_open or
\* force_close raises because a hook (on_open, on_close, on_state_change)
\* raised during the transition: the hook's exception is caught.
C31_HooksNeverPropagate == ~cbRaised

\* ------------------------------------------------------------------------
\* Claims about DLQ items (checked under SpecSweep)
\* ------------------------------------------------------------------------

\* C32: the next_retry_at of an item of the queue is set only while the
\* item's status is RETRYING; in every other status it is None.
C32_NextRetryOnlyWhileRetrying ==
    \A i \in ItemIds :
        items[i].wait # None => items[i].status = "RETRYING"

\* ------------------------------------------------------------------------
\* Claims about the DLQ and its operators (checked under SpecDLQ)
\* ------------------------------------------------------------------------

\* C33: nothing keeps two callers of _process_item apart on one item: a
\* retry_item that has reached its _process_item call goes on while the
\* sweep's handler call for the same item is in flight, and the sweep goes on
\* with an item whose handler call by retry_item is in flight, so the handler
\* is invoked a second time while the first invocation is still running.
C33_NoItemExclusion ==
    /\ (man.pc = "next" /\ proc.pc = "handler" /\ Head(proc.ready) = man.item)
          => ENABLED ManualBegin
    /\ (proc.pc = "next" /\ man.pc = "handler" /\ man.item = Head(proc.ready))
          => ENABLED SweepBegin

\* The sweep and retry_item are both awaiting the handler of the same item.
C33_Witness ==
    /\ proc.pc = "handler"
    /\ man.pc = "handler"
    /\ Head(proc.ready) = man.item

\* ------------------------------------------------------------------------
\* Claims about discard_item (checked under SpecDiscard)
\* ------------------------------------------------------------------------

\* C34: an item for which discard_item has returned True stays DISCARDED, as
\* long as nobody calls retry_item, whatever a sweep in progress does:
\* a handler call that was running for it ends without changing its status,
\* and a sweep that listed it as ready before the discard does not mark it
\* PROCESSING and invoke its handler.
C34_DiscardIsFinal ==
    \A i \in dropped : items[i].status = "DISCARDED"

\* ------------------------------------------------------------------------
\* Claims about the DLQ across restarts (checked under SpecStore)
\* ------------------------------------------------------------------------

\* C37: an item of the queue has status PROCESSING only while a handler call
\* for it is in flight, also in the process that follows a crash and has
\* loaded the items from disk: no item is left in PROCESSING, where
\* is_ready_for_retry() keeps it out of every later sweep.
C37_ProcessingHasHandler ==
    \A i \in ItemIds :
        items[i].status = "PROCESSING" => HandlerRunning(i)

\* ------------------------------------------------------------------------
\* Claims about the registry of the Orchestrator (checked under SpecOrch)
\* ------------------------------------------------------------------------

\* C35: execute_with_timeout, complete_task, fail_task and the watchdog's
\* recovery change the live registry and the fields of a task held in it
\* only inside "async with self._lock": no call has assigned a field of its
\* task, while the task was in active_tasks, without holding the lock.
C35_MutationsUnderLock == \A c \in Calls : ~call[c].unlocked

\* C36: no task is in active_tasks and in task_history at once; every task in
\* task_history has status COMPLETED, FAILED, TIMEOUT or RECOVERED; and once
\* execute_with_timeout has returned or raised, its task is out of
\* active_tasks and in task_history.
C36_RegistryAndHistory ==
    \A c \in Calls :
        /\ ~(InActive(c) /\ c \in task_history)
        /\ c \in task_history =>
              task[c].status \in {"COMPLETED", "FAILED", "TIMEOUT", "RECOVERED"}
        /\ call[c].pc \in {"returned", "raised"} =>
              (~InActive(c) /\ c \in task_history)

\* A call that returned the operation's result after the watchdog had
\* archived its task as FAILED.
C36_Witness ==
    \E c \in Calls :
        /\ call[c].pc = "returned"
        /\ call[c].wdNotices = 1
        /\ c \in task_history
        /\ ~InActive(c)
        /\ task[c].status = "FAILED"

\* C39: the watchdog sends its notice and counts a recovery only for a task
\* that it moves from active_tasks to task_history as FAILED in that
\* recovery: a task that left the registry between get_stuck_tasks and
\* fail_task gets no watchdog notice and is not counted.
C39_NoticeOnlyForRecovered ==
    [][\A c \in Calls :
          (\/ call'[c].wdNotices > call[c].wdNotices
           \/ (wd'.recoveries > wd.recoveries /\ Head(wd.stuck) = c))
              => /\ InActive(c)
                 /\ c \in task_history'
                 /\ task'[c].status = "FAILED"
                 /\ task'[c].error = "Stuck task recovered by watchdog"]_vars


\* C38: in one process, with every file write succeeding, a load_state(K)
\* that returns a record returns one whose version is not lower than the
\* latest version for which save_state(K) returned True, whatever saves of
\* other keys (and evictions from the memory layer) came in between.
C38_LoadReturnsLatestSaved ==
    (/\ lastCall.op = "load"
     /\ lastCall.version > 0
     /\ ~fileErrors)
        => lastCall.version >= lastOk[lastCall.key]

\* C40: a breaker used through async_retry, whose callers keep calling and
\* whose admitted invocations all end (result, error or timeout), does not
\* stay HALF_OPEN: from HALF_OPEN it gets to CLOSED or to OPEN.
C40_HalfOpenEnds == (state = "HALF_OPEN") ~> (state \in {"CLOSED", "OPEN"})

\* The probes of the window timed out (nothing was reported for them), the
\* budget is used up, and the refusal of the next call opened the breaker.
C40_Witness ==
    /\ state = "OPEN"
    /\ lastOp = "record_failure"
    /\ lastFrom = "HALF_OPEN"
    /\ lastErr = "CircuitBreakerOpenError"
    /\ half_open_calls = config.half_open_max_calls
    /\ hoSuccesses = 0
====
